---- MODULE Spec2Model ----
(***************************************************************************)
(* A state-machine model of the double-six domino search engine            *)
(* (wasm-ai): lookup tables, Zobrist hashing, transposition table, move    *)
(* generation, scoring, evaluation, move ordering, the minimax kernel with *)
(* its root iterative-deepening driver, and the JSON shell around it.      *)
(*                                                                         *)
(* Representation.                                                         *)
(*  - A hand (a 28-bit mask, i32) is the set of its set bit positions,     *)
(*    i.e. a set of tile indices; &, | and ^ are set intersection, union   *)
(*    and symmetric difference; popcount is Cardinality.                   *)
(*  - A 32-bit hash word is the set of its set bit positions (0..31), so   *)
(*    XOR is symmetric difference and the shifts of xorshift32 move bit    *)
(*    positions, dropping those that leave the word.                       *)
(*  - f64 quantities are held in exact fixed point: evaluator values in    *)
(*    hundredths, move-ordering scores in halves.                          *)
(***************************************************************************)
EXTENDS Integers, Sequences, FiniteSets, TLC

(***************************************************************************)
(* lookup.rs                                                               *)
(***************************************************************************)
NUM_TILES == 28

TileIdx == 0 .. (NUM_TILES - 1)

Pips == 0 .. 6

\* Index of the first tile whose low pip is i: rows of the nested while loops.
RowStart(i) == (i * (15 - i)) \div 2

TILE_LOW == [idx \in TileIdx |->
               CHOOSE i \in Pips : RowStart(i) <= idx /\ idx < RowStart(i + 1)]

TILE_HIGH == [idx \in TileIdx |-> TILE_LOW[idx] + (idx - RowStart(TILE_LOW[idx]))]

TILE_PIPS == [idx \in TileIdx |-> TILE_LOW[idx] + TILE_HIGH[idx]]

TILE_IS_DOUBLE == [idx \in TileIdx |-> TILE_LOW[idx] = TILE_HIGH[idx]]

SUIT_MASK == [v \in Pips |-> {idx \in TileIdx : TILE_LOW[idx] = v \/ TILE_HIGH[idx] = v}]

DOUBLE_MASK == {idx \in TileIdx : TILE_LOW[idx] = TILE_HIGH[idx]}

TILE_00_BIT == {0}

ZERO_SUIT_NO_00 == SUIT_MASK[0] \ TILE_00_BIT

\* Flat tables indexed by t * 8 + v; v = 7 is the empty board; -1 is illegal.
\* A left table that keeps the matched end instead of turning the tile.
NEW_END_LEFT_Matched == [off \in 0 .. (NUM_TILES * 8 - 1) |->
                           LET idx == off \div 8
                               v   == off % 8
                           IN  IF v = 7 THEN TILE_LOW[idx]
                               ELSE IF TILE_HIGH[idx] = v \/ TILE_LOW[idx] = v THEN v
                               ELSE -1]

NEW_END_LEFT == [off \in 0 .. (NUM_TILES * 8 - 1) |->
                   LET idx == off \div 8
                       v   == off % 8
                   IN  IF v = 7 THEN TILE_LOW[idx]
                       ELSE IF TILE_HIGH[idx] = v THEN TILE_LOW[idx]
                       ELSE IF TILE_LOW[idx] = v THEN TILE_HIGH[idx]
                       ELSE -1]

NEW_END_RIGHT == [off \in 0 .. (NUM_TILES * 8 - 1) |->
                    LET idx == off \div 8
                        v   == off % 8
                    IN  IF v = 7 THEN TILE_HIGH[idx]
                        ELSE IF TILE_LOW[idx] = v THEN TILE_HIGH[idx]
                        ELSE IF TILE_HIGH[idx] = v THEN TILE_LOW[idx]
                        ELSE -1]

TILE_ID_MAP == [i \in Pips |-> [j \in Pips |->
                  IF i <= j THEN RowStart(i) + (j - i) ELSE -1]]

Min2(a, b) == IF a <= b THEN a ELSE b

Max2(a, b) == IF a >= b THEN a ELSE b

\* `as usize` of a negative i8 is a huge index: both array accesses are
\* bounds-checked, so the call panics unless both pips are in 0..6.
tile_id_to_index_ok(low, high) == Min2(low, high) \in Pips /\ Max2(low, high) \in Pips

tile_id_to_index(low, high) == TILE_ID_MAP[Min2(low, high)][Max2(low, high)]

popcount(x) == Cardinality(x)

\* The lowest set bit of a non-empty mask (bit & -bit, trailing_zeros).
LowBit(h) == CHOOSE i \in h : \A j \in h : i <= j

\* The set bits of a mask in the order the `while h != 0` loops visit them.
RECURSIVE BitsAsc(_)
BitsAsc(h) == IF h = {} THEN <<>> ELSE <<LowBit(h)>> \o BitsAsc(h \ {LowBit(h)})

\* hand ^ bit
ToggleBit(hand, t) == IF t \in hand THEN hand \ {t} ELSE hand \cup {t}

(***************************************************************************)
(* zobrist.rs                                                              *)
(***************************************************************************)
U32Bits == 0 .. 31

Xor(a, b) == {i \in U32Bits : (i \in a) # (i \in b)}

\* s << k and s >> k on a u32: bits shifted out of the word are dropped.
Shl(s, k) == {i \in U32Bits : (i - k) \in s}

Shr(s, k) == {i \in U32Bits : (i + k) \in s}

\* The binary expansion of a number below 2^31.
BitsOf(n) == {b \in 0 .. 30 : (n \div (2 ^ b)) % 2 = 1}

ZOBRIST_SEED == 305419896

xorshift32_next(s) ==
    LET a == Xor(s, Shl(s, 13))
        b == Xor(a, Shr(a, 17))
    IN  Xor(b, Shl(b, 5))

\* The generator state after n further draws from state s.
RECURSIVE RngAdvance(_, _)
RngAdvance(s, n) == IF n = 0 THEN s ELSE xorshift32_next(RngAdvance(s, n - 1))

\* The generator state after every eighth draw (the 75 draws of
\* generate_zobrist, taken in blocks so that each block is evaluated once).
Rng0 == BitsOf(ZOBRIST_SEED)
Rng8 == RngAdvance(Rng0, 8)
Rng16 == RngAdvance(Rng8, 8)
Rng24 == RngAdvance(Rng16, 8)
Rng32 == RngAdvance(Rng24, 8)
Rng40 == RngAdvance(Rng32, 8)
Rng48 == RngAdvance(Rng40, 8)
Rng56 == RngAdvance(Rng48, 8)
Rng64 == RngAdvance(Rng56, 8)
Rng72 == RngAdvance(Rng64, 8)
RngCheckpoint == <<Rng0, Rng8, Rng16, Rng24, Rng32, Rng40, Rng48, Rng56, Rng64, Rng72>>

\* The k-th word drawn from the generator, k = 1 .. 75.
RngDraw(k) == RngAdvance(RngCheckpoint[(k \div 8) + 1], k % 8)

generate_zobrist ==
    [ tile_hash     |-> [i \in TileIdx |-> [h \in 0 .. 1 |-> RngDraw(2 * i + h + 1)]],
      left_hash     |-> [v \in 0 .. 7 |-> RngDraw(56 + v + 1)],
      right_hash    |-> [v \in 0 .. 7 |-> RngDraw(64 + v + 1)],
      side_hash     |-> RngDraw(73),
      conspass_hash |-> [k \in 0 .. 1 |-> RngDraw(74 + k)] ]

\* static ZOBRIST: the tables, filled once by generate_zobrist and never
\* written again.
VARIABLE ZOBRIST

tile_hash(tile_idx, hand) == ZOBRIST.tile_hash[tile_idx][hand]

left_hash(val) == ZOBRIST.left_hash[val]

right_hash(val) == ZOBRIST.right_hash[val]

side_hash == ZOBRIST.side_hash

conspass_hash(idx) == ZOBRIST.conspass_hash[idx]

RECURSIVE XorTiles(_, _, _)
XorTiles(h, tiles, hand) ==
    IF tiles = <<>> THEN h
    ELSE XorTiles(Xor(h, tile_hash(Head(tiles), hand)), Tail(tiles), hand)

compute_root_hash(ai_hand, human_hand, left, right, is_ai, cons_pass) ==
    LET h1 == XorTiles({}, BitsAsc(ai_hand), 0)
        h2 == XorTiles(h1, BitsAsc(human_hand), 1)
        h3 == Xor(Xor(h2, left_hash(left)), right_hash(right))
        h4 == IF ~is_ai THEN Xor(h3, side_hash) ELSE h3
    IN  IF cons_pass > 0 THEN Xor(h4, conspass_hash(1)) ELSE h4

(***************************************************************************)
(* tt.rs: the transposition table.  The seven parallel arrays are one map  *)
(* from slot index to a record; a slot never written holds the arrays'     *)
(* static initial value, all zero.                                         *)
(***************************************************************************)
TT_SIZE_LOG2 == 22

TT_EXACT == 1

TT_LOWER == 2

TT_UPPER == 3

\* (hash as u32 as usize) & TT_MASK: the low 22 bits of the word.
TtIndex(hash) == {i \in hash : i < TT_SIZE_LOG2}

TtZeroEntry == [hash |-> {}, depth |-> 0, flag |-> 0, value |-> 0,
                best_idx |-> 0, best_end |-> 0, gen |-> 0]

TtSlot(tt, idx) == IF idx \in DOMAIN tt THEN tt[idx] ELSE TtZeroEntry

\* Two's-complement truncation of `x as i8` and `x as i16`.
AsI8(x) == ((x + 128) % 256) - 128

AsI16(x) == ((x + 32768) % 65536) - 32768

\* i32 addition as the release build does it: the sum modulo 2^32, computed
\* without leaving the i32 range.
WrapAddI32(a, b) ==
    IF a > 0 /\ b > 0 /\ a > 2147483647 - b
    THEN (a - 2147483647 - 1) + (b - 2147483647 - 1)
    ELSE IF a < 0 /\ b < 0 /\ a < (-2147483647 - 1) - b
         THEN (a + 2147483647 + 1) + (b + 2147483647 + 1)
         ELSE a + b

\* i32 `d * d` modulo 2^32 for 0 <= d < 65536, from the two bytes of d.
WrapSquareI32(d) ==
    LET dh     == d \div 256
        dl     == d % 256
        mid    == 2 * dh * dl
        lo_sum == (mid % 256) * 256 + dl * dl
        lo     == lo_sum % 65536
        hi     == (dh * dh + mid \div 256 + lo_sum \div 65536) % 65536
    IN  (IF hi >= 32768 THEN hi - 65536 ELSE hi) * 65536 + lo

\* static mut TT_GENERATION: u8
VARIABLE TT_GENERATION

tt_new_generation(generation) == (generation + 1) % 256

tt_clear(tt) == [idx \in DOMAIN tt |-> [tt[idx] EXCEPT !.flag = 0]]

TtNone == [hit |-> FALSE, best_idx |-> -1, best_end |-> -1, has_score |-> FALSE, score |-> 0]

\* tt_probe without the depth test: the fault C9_ProbeContract detects.
tt_probe_any_depth(tt, hash, depth, alpha, beta) ==
    LET e == TtSlot(tt, TtIndex(hash))
    IN  IF e.flag = 0 THEN TtNone
        ELSE IF e.hash # hash THEN TtNone
        ELSE LET usable == \/ e.flag = TT_EXACT
                           \/ (e.flag = TT_LOWER /\ e.value >= beta)
                           \/ (e.flag = TT_UPPER /\ e.value <= alpha)
             IN  [hit |-> TRUE, best_idx |-> e.best_idx, best_end |-> e.best_end,
                  has_score |-> usable, score |-> IF usable THEN e.value ELSE 0]

\* tt_probe made to skip the entries of other generations: the fault
\* C12_ProbeIgnoresGeneration detects.
tt_probe_this_generation(tt, hash, depth, alpha, beta) ==
    LET e == TtSlot(tt, TtIndex(hash))
    IN  IF e.flag = 0 THEN TtNone
        ELSE IF e.hash # hash THEN TtNone
        ELSE IF e.gen # TT_GENERATION THEN TtNone
        ELSE LET usable == /\ e.depth >= depth
                           /\ \/ e.flag = TT_EXACT
                              \/ (e.flag = TT_LOWER /\ e.value >= beta)
                              \/ (e.flag = TT_UPPER /\ e.value <= alpha)
             IN  [hit |-> TRUE, best_idx |-> e.best_idx, best_end |-> e.best_end,
                  has_score |-> usable, score |-> IF usable THEN e.value ELSE 0]

tt_probe(tt, hash, depth, alpha, beta) ==
    LET e == TtSlot(tt, TtIndex(hash))
    IN  IF e.flag = 0 THEN TtNone
        ELSE IF e.hash # hash THEN TtNone
        ELSE LET usable == /\ e.depth >= depth
                           /\ \/ e.flag = TT_EXACT
                              \/ (e.flag = TT_LOWER /\ e.value >= beta)
                              \/ (e.flag = TT_UPPER /\ e.value <= alpha)
             IN  [hit |-> TRUE, best_idx |-> e.best_idx, best_end |-> e.best_end,
                  has_score |-> usable, score |-> IF usable THEN e.value ELSE 0]

\* tt_store with no replacement test: the fault C10_StoreContract detects.
tt_store_always(tt, generation, hash, depth, flag, value, best_idx, best_end) ==
    (TtIndex(hash) :> [hash |-> hash, depth |-> AsI8(depth), flag |-> flag,
                       value |-> AsI16(value), best_idx |-> best_idx,
                       best_end |-> best_end, gen |-> generation]) @@ tt

tt_store(tt, generation, hash, depth, flag, value, best_idx, best_end) ==
    LET idx == TtIndex(hash)
        e   == TtSlot(tt, idx)
    IN  IF e.flag = 0 \/ e.gen # generation \/ depth >= e.depth
        THEN (idx :> [hash |-> hash, depth |-> AsI8(depth), flag |-> flag,
                      value |-> AsI16(value), best_idx |-> best_idx,
                      best_end |-> best_end, gen |-> generation]) @@ tt
        ELSE tt

(***************************************************************************)
(* movegen.rs                                                              *)
(***************************************************************************)
MAX_PLY == 64

MovesOf(tiles, end) == [k \in 1 .. Len(tiles) |-> <<tiles[k], end>>]

\* SUIT_MASK[left as usize] and SUIT_MASK[right as usize] are bounds-checked
\* reads of a 7-element array, made whenever left # 7.
generate_moves_ok(left, right) == left = 7 \/ (left \in Pips /\ right \in Pips)

\* generate_moves that lists the right end again when the ends are equal: the
\* fault C18_GenerateMoves detects.
generate_moves_twice(hand, left, right) ==
    IF left = 7 THEN MovesOf(BitsAsc(hand), 0)
    ELSE LET left_mask  == SUIT_MASK[left] \cap hand
             right_mask == SUIT_MASK[right] \cap hand
         IN  MovesOf(BitsAsc(left_mask), 0) \o MovesOf(BitsAsc(right_mask), 1)

\* The (tile, end) pairs written to the buffer, in order; the count is Len.
generate_moves(hand, left, right) ==
    IF left = 7 THEN MovesOf(BitsAsc(hand), 0)
    ELSE LET left_mask  == SUIT_MASK[left] \cap hand
             right_mask == SUIT_MASK[right] \cap hand
         IN  IF left # right
             THEN MovesOf(BitsAsc(left_mask), 0) \o MovesOf(BitsAsc(right_mask), 1)
             ELSE MovesOf(BitsAsc(left_mask), 0)
                    \o MovesOf(BitsAsc(right_mask \ left_mask), 1)

\* Writing n moves at buffer[ply*28 ..] leaves the entries behind them as
\* they were (a region is the written prefix of its 28 slots).
WriteMoves(buf, ply, moves) ==
    LET old == IF ply \in DOMAIN buf THEN buf[ply] ELSE <<>>
        n   == Len(moves)
    IN  (ply :> (moves \o SubSeq(old, n + 1, Len(old)))) @@ buf

\* count_moves_bb that counts a tile once for each end it fits: the fault
\* C19_CountsTiles detects.
count_moves_bb_per_end(hand, left, right) ==
    IF left = 7 THEN popcount(hand)
    ELSE LET left_mask  == SUIT_MASK[left] \cap hand
             right_mask == SUIT_MASK[right] \cap hand
         IN  IF left = right THEN popcount(left_mask)
             ELSE popcount(left_mask) + popcount(right_mask)

count_moves_bb(hand, left, right) ==
    IF left = 7 THEN popcount(hand)
    ELSE LET left_mask  == SUIT_MASK[left] \cap hand
             right_mask == SUIT_MASK[right] \cap hand
         IN  IF left = right THEN popcount(left_mask)
             ELSE popcount(left_mask \cup right_mask)

(***************************************************************************)
(* scoring.rs                                                              *)
(***************************************************************************)
GHOST_PIPS == 13

RECURSIVE SumPips(_, _)
SumPips(tiles, ghost13) ==
    IF tiles = <<>> THEN 0
    ELSE (IF Head(tiles) = 0 /\ ghost13 THEN GHOST_PIPS ELSE TILE_PIPS[Head(tiles)])
           + SumPips(Tail(tiles), ghost13)

\* total_pips_bb that looks for the zero suit in the hand alone: the fault
\* C17_TotalPips detects.
total_pips_bb_own_hand(hand, both_hands) ==
    LET ghost13 == (hand \cap TILE_00_BIT) # {} /\ (hand \cap ZERO_SUIT_NO_00) = {}
    IN  SumPips(BitsAsc(hand), ghost13)

total_pips_bb(hand, both_hands) ==
    LET ghost13 == (hand \cap TILE_00_BIT) # {} /\ (both_hands \cap ZERO_SUIT_NO_00) = {}
    IN  SumPips(BitsAsc(hand), ghost13)

\* score_domino_bb that counts the faces only: the fault C16_ImmediateDomino
\* detects.
score_domino_bb_faces(winner_is_ai, loser_hand) ==
    LET pips == SumPips(BitsAsc(loser_hand), FALSE)
    IN  IF winner_is_ai THEN pips ELSE -pips

score_domino_bb(winner_is_ai, loser_hand) ==
    LET pips == total_pips_bb(loser_hand, loser_hand)
    IN  IF winner_is_ai THEN pips ELSE -pips

\* The forced tile put on the left of (p2_l, p2_r), or on the right: whether
\* either hand then has a move.
ReplyAfterLeft(the_tile_idx, p2_l, p2_r, forced_hand_after, other_hand) ==
    LET new_l == NEW_END_LEFT[the_tile_idx * 8 + (IF p2_l = 7 THEN 7 ELSE p2_l)]
        new_r == IF p2_l = 7 THEN NEW_END_RIGHT[the_tile_idx * 8 + 7] ELSE p2_r
    IN  count_moves_bb(other_hand, new_l, new_r) > 0
          \/ count_moves_bb(forced_hand_after, new_l, new_r) > 0

ReplyAfterRight(the_tile_idx, p2_l, p2_r, forced_hand_after, other_hand) ==
    LET new_r2 == NEW_END_RIGHT[the_tile_idx * 8 + p2_r]
        new_l2 == p2_l
    IN  count_moves_bb(other_hand, new_l2, new_r2) > 0
          \/ count_moves_bb(forced_hand_after, new_l2, new_r2) > 0

\* detect_aggressor_bb that tries the left orientation only: the fault
\* C15_Puppeteer detects.
detect_aggressor_bb_left_only(p1_who, p1_l, p1_r, p1_tile, p2_who, p2_l, p2_r, last_placer_hand, other_hand) ==
    IF p2_who = -1 \/ p1_tile = -1 THEN p1_who
    ELSE
      LET forced_hand == last_placer_hand \cup {p1_tile}
          legal_mask  == IF p2_l = 7 THEN forced_hand
                         ELSE IF p2_l = p2_r THEN SUIT_MASK[p2_l] \cap forced_hand
                         ELSE (SUIT_MASK[p2_l] \cup SUIT_MASK[p2_r]) \cap forced_hand
      IN  IF popcount(legal_mask) # 1 THEN p1_who
          ELSE
            LET the_tile_idx == LowBit(legal_mask)
                can_l == IF p2_l = 7 THEN TRUE
                         ELSE (TILE_LOW[the_tile_idx] = p2_l \/ TILE_HIGH[the_tile_idx] = p2_l)
            IN  IF can_l /\ ReplyAfterLeft(the_tile_idx, p2_l, p2_r, last_placer_hand, other_hand)
                THEN p1_who
                ELSE p2_who

\* detect_aggressor_bb that keeps P1 only when the mask has one bit and both
\* orientations leave a reply: the fault C14_Aggressor detects.
detect_aggressor_bb_both(p1_who, p1_l, p1_r, p1_tile, p2_who, p2_l, p2_r, last_placer_hand, other_hand) ==
    IF p2_who = -1 \/ p1_tile = -1 THEN p1_who
    ELSE
      LET forced_hand == last_placer_hand \cup {p1_tile}
          legal_mask  == IF p2_l = 7 THEN forced_hand
                         ELSE IF p2_l = p2_r THEN SUIT_MASK[p2_l] \cap forced_hand
                         ELSE (SUIT_MASK[p2_l] \cup SUIT_MASK[p2_r]) \cap forced_hand
      IN  IF popcount(legal_mask) # 1 THEN p2_who
          ELSE
            LET the_tile_idx == LowBit(legal_mask)
                lo    == TILE_LOW[the_tile_idx]
                hi    == TILE_HIGH[the_tile_idx]
                can_l == IF p2_l = 7 THEN TRUE ELSE (lo = p2_l \/ hi = p2_l)
                can_r == IF p2_l = 7 THEN FALSE
                         ELSE IF p2_l = p2_r /\ can_l THEN FALSE
                         ELSE (lo = p2_r \/ hi = p2_r)
            IN  IF /\ can_l => ReplyAfterLeft(the_tile_idx, p2_l, p2_r, last_placer_hand,
                                              other_hand)
                   /\ can_r => ReplyAfterRight(the_tile_idx, p2_l, p2_r, last_placer_hand,
                                               other_hand)
                THEN p1_who
                ELSE p2_who

detect_aggressor_bb(p1_who, p1_l, p1_r, p1_tile, p2_who, p2_l, p2_r, last_placer_hand, other_hand) ==
    IF p2_who = -1 \/ p1_tile = -1 THEN p1_who
    ELSE
      LET forced_hand == last_placer_hand \cup {p1_tile}
          legal_mask  == IF p2_l = 7 THEN forced_hand
                         ELSE IF p2_l = p2_r THEN SUIT_MASK[p2_l] \cap forced_hand
                         ELSE (SUIT_MASK[p2_l] \cup SUIT_MASK[p2_r]) \cap forced_hand
      IN  IF popcount(legal_mask) # 1 THEN p1_who
          ELSE
            LET the_tile_idx == LowBit(legal_mask)
                lo    == TILE_LOW[the_tile_idx]
                hi    == TILE_HIGH[the_tile_idx]
                can_l == IF p2_l = 7 THEN TRUE ELSE (lo = p2_l \/ hi = p2_l)
                can_r == IF p2_l = 7 THEN FALSE
                         ELSE IF p2_l = p2_r /\ can_l THEN FALSE
                         ELSE (lo = p2_r \/ hi = p2_r)
                forced_hand_after == last_placer_hand
                new_l  == NEW_END_LEFT[the_tile_idx * 8 + (IF p2_l = 7 THEN 7 ELSE p2_l)]
                new_r  == IF p2_l = 7 THEN NEW_END_RIGHT[the_tile_idx * 8 + 7] ELSE p2_r
                new_r2 == NEW_END_RIGHT[the_tile_idx * 8 + p2_r]
                new_l2 == p2_l
            IN  IF can_l /\ (count_moves_bb(other_hand, new_l, new_r) > 0
                             \/ count_moves_bb(forced_hand_after, new_l, new_r) > 0)
                THEN p1_who
                ELSE IF can_r /\ (count_moves_bb(other_hand, new_l2, new_r2) > 0
                                  \/ count_moves_bb(forced_hand_after, new_l2, new_r2) > 0)
                THEN p1_who
                ELSE p2_who

\* score_block_bb with < for <=: the fault C13_BlockScore detects.
score_block_bb_strict(ai_hand, human_hand, p1_who, p1_l, p1_r, p1_tile, p2_who, p2_l, p2_r) ==
    LET last_placer_hand == IF p1_who = 1 THEN ai_hand ELSE human_hand
        other_hand       == IF p1_who = 1 THEN human_hand ELSE ai_hand
        aggressor  == detect_aggressor_bb(p1_who, p1_l, p1_r, p1_tile, p2_who, p2_l, p2_r,
                                          last_placer_hand, other_hand)
        both_hands == ai_hand \cup human_hand
        ai_pips    == total_pips_bb(ai_hand, both_hands)
        human_pips == total_pips_bb(human_hand, both_hands)
        aggr_pips  == IF aggressor = 1 THEN ai_pips ELSE human_pips
        opp_pips   == IF aggressor = 1 THEN human_pips ELSE ai_pips
    IN  IF aggr_pips < opp_pips
        THEN (IF aggressor = 1 THEN opp_pips * 2 ELSE -(opp_pips * 2))
        ELSE (IF aggressor = 1 THEN -(ai_pips + human_pips) ELSE ai_pips + human_pips)

score_block_bb(ai_hand, human_hand, p1_who, p1_l, p1_r, p1_tile, p2_who, p2_l, p2_r) ==
    LET last_placer_hand == IF p1_who = 1 THEN ai_hand ELSE human_hand
        other_hand       == IF p1_who = 1 THEN human_hand ELSE ai_hand
        aggressor  == detect_aggressor_bb(p1_who, p1_l, p1_r, p1_tile, p2_who, p2_l, p2_r,
                                          last_placer_hand, other_hand)
        both_hands == ai_hand \cup human_hand
        ai_pips    == total_pips_bb(ai_hand, both_hands)
        human_pips == total_pips_bb(human_hand, both_hands)
        aggr_pips  == IF aggressor = 1 THEN ai_pips ELSE human_pips
        opp_pips   == IF aggressor = 1 THEN human_pips ELSE ai_pips
    IN  IF aggr_pips <= opp_pips
        THEN (IF aggressor = 1 THEN opp_pips * 2 ELSE -(opp_pips * 2))
        ELSE (IF aggressor = 1 THEN -(ai_pips + human_pips) ELSE ai_pips + human_pips)

(***************************************************************************)
(* eval.rs.  The f64 result is carried exactly, in units of 1/200: the     *)
(* weights are integers or halves and the phase factors are hundredths.    *)
(***************************************************************************)
W_PIP == 2

W_MOBILITY == 4

W_TILE == 5

W_SUIT == 3

W_LOCKIN == 8

W_LOCKIN_BOTH == 15

W_GHOST == 10

\* W_DOUBLE = 1.5, in halves.
W_DOUBLE_X2 == 3

RECURSIVE DoubleSum(_)
DoubleSum(tiles) ==
    IF tiles = <<>> THEN 0
    ELSE (TILE_PIPS[Head(tiles)] + 2) * W_DOUBLE_X2 + DoubleSum(Tail(tiles))

\* (phase_pip, phase_mob, phase_suit, phase_dbl) in hundredths.
PhaseWeights(total_remaining) ==
    IF total_remaining >= 20 THEN [pip |-> 70, mob |-> 150, suit |-> 130, dbl |-> 130]
    ELSE IF total_remaining < 8 THEN [pip |-> 150, mob |-> 60, suit |-> 150, dbl |-> 100]
    ELSE [pip |-> 100, mob |-> 100, suit |-> 100, dbl |-> 100]

\* The match adjustment with its thresholds at 49 and -49.
MatchAdjustFrom49(ph, match_diff) ==
    IF match_diff >= 49
    THEN [ph EXCEPT !.pip = (ph.pip * 14) \div 10, !.suit = (ph.suit * 6) \div 10]
    ELSE IF match_diff <= -49
    THEN [ph EXCEPT !.pip = (ph.pip * 7) \div 10, !.suit = (ph.suit * 15) \div 10,
                    !.mob = (ph.mob * 13) \div 10]
    ELSE ph

MatchAdjust(ph, match_diff) ==
    IF match_diff >= 50
    THEN [ph EXCEPT !.pip = (ph.pip * 14) \div 10, !.suit = (ph.suit * 6) \div 10]
    ELSE IF match_diff <= -50
    THEN [ph EXCEPT !.pip = (ph.pip * 7) \div 10, !.suit = (ph.suit * 15) \div 10,
                    !.mob = (ph.mob * 13) \div 10]
    ELSE ph

\* evaluate_bb, times 200.
evaluate_bb(ai_hand, human_hand, left, right, match_diff) ==
    LET both_hands  == ai_hand \cup human_hand
        ai_pips     == total_pips_bb(ai_hand, both_hands)
        human_pips  == total_pips_bb(human_hand, both_hands)
        pip_score   == (human_pips - ai_pips) * W_PIP
        ai_mob      == count_moves_bb(ai_hand, left, right)
        human_mob   == count_moves_bb(human_hand, left, right)
        mob_score   == (ai_mob - human_mob) * W_MOBILITY
        ai_count    == popcount(ai_hand)
        human_count == popcount(human_hand)
        tile_score  == (human_count - ai_count) * W_TILE
        suit_score  ==
            IF left = 7 THEN 0
            ELSE IF left = right
            THEN LET ai_l == popcount(SUIT_MASK[left] \cap ai_hand)
                     h_l  == popcount(SUIT_MASK[left] \cap human_hand)
                 IN  (ai_l - h_l) * W_SUIT * 2
                       + (IF h_l = 0 THEN W_LOCKIN * 2 + W_LOCKIN_BOTH ELSE 0)
            ELSE LET ai_l == popcount(SUIT_MASK[left] \cap ai_hand)
                     ai_r == popcount(SUIT_MASK[right] \cap ai_hand)
                     h_l  == popcount(SUIT_MASK[left] \cap human_hand)
                     h_r  == popcount(SUIT_MASK[right] \cap human_hand)
                 IN  (ai_l + ai_r - h_l - h_r) * W_SUIT
                       + (IF h_l = 0 THEN W_LOCKIN ELSE 0)
                       + (IF h_r = 0 THEN W_LOCKIN ELSE 0)
                       + (IF h_l = 0 /\ h_r = 0 THEN W_LOCKIN_BOTH ELSE 0)
        ghost       ==
            IF (both_hands \cap ZERO_SUIT_NO_00) = {}
            THEN (IF (human_hand \cap TILE_00_BIT) # {} THEN W_GHOST ELSE 0)
                   - (IF (ai_hand \cap TILE_00_BIT) # {} THEN W_GHOST ELSE 0)
            ELSE 0
        double_pen  == DoubleSum(BitsAsc(human_hand \cap DOUBLE_MASK))
                         - DoubleSum(BitsAsc(ai_hand \cap DOUBLE_MASK))
        ph          == MatchAdjust(PhaseWeights(popcount(ai_hand) + popcount(human_hand)),
                                   match_diff)
    IN  pip_score * ph.pip * 2 + mob_score * ph.mob * 2 + tile_score * 200
          + suit_score * ph.suit * 2 + ghost * 200 + double_pen * ph.dbl

\* `x as i32` of an f64 truncates toward zero.
AsI32(x200) == IF x200 >= 0 THEN x200 \div 200 ELSE -((-x200) \div 200)

(***************************************************************************)
(* ordering.rs.  Move scores are carried exactly, in halves.               *)
(***************************************************************************)
MO_DOMINO == 1000

MO_DOUBLE == 12

\* MO_PIP_MULT = 1.5, in halves.
MO_PIP_MULT_X2 == 3

MO_FORCE_PASS == 25

MO_GHOST == 15

MAX_DEPTH_SLOTS == 64

KillerEmpty == <<-1, -2>>

\* A depth never recorded holds the cleared pair (-1, -2) in both slots.
KillerAt(killer, depth) ==
    IF depth \in DOMAIN killer THEN killer[depth] ELSE <<KillerEmpty, KillerEmpty>>

HistoryAt(history, tile_idx, end) ==
    IF <<tile_idx, end>> \in DOMAIN history THEN history[<<tile_idx, end>>] ELSE 0

\* record_killer without the test on slot 0: the fault C20_RecordKiller
\* detects.
record_killer_always(killer, depth, tile_idx, end) ==
    IF depth >= 0 /\ depth < MAX_DEPTH_SLOTS
    THEN (depth :> <<(<<tile_idx, end>>), KillerAt(killer, depth)[1]>>) @@ killer
    ELSE killer

record_killer(killer, depth, tile_idx, end) ==
    IF depth >= 0 /\ depth < MAX_DEPTH_SLOTS
    THEN IF KillerAt(killer, depth)[1] # <<tile_idx, end>>
         THEN (depth :> <<(<<tile_idx, end>>), KillerAt(killer, depth)[1]>>) @@ killer
         ELSE killer
    ELSE killer

\* HISTORY_SCORE is [[i32; 3]; 28] and depth an i32: the product and the sum
\* wrap (a build with overflow checks panics instead).
record_history(history, tile_idx, end, depth) ==
    LET hv == WrapAddI32(HistoryAt(history, tile_idx, end), WrapSquareI32(depth))
    IN  (<<tile_idx, end>> :> (IF hv > 10000 THEN 10000 ELSE hv)) @@ history

\* The score of one move, times 2.
MoveScore(mv, is_ai, depth, ai_hand, human_hand, left, right, killer, history) ==
    LET t_idx    == mv[1]
        end      == mv[2]
        my_hand  == IF is_ai THEN ai_hand ELSE human_hand
        opp_hand == IF is_ai THEN human_hand ELSE ai_hand
        kd       == KillerAt(killer, depth)
        new_l    == IF left = 7 THEN TILE_LOW[t_idx]
                    ELSE IF end = 0 THEN NEW_END_LEFT[t_idx * 8 + left] ELSE left
        new_r    == IF left = 7 THEN TILE_HIGH[t_idx]
                    ELSE IF end = 0 THEN right ELSE NEW_END_RIGHT[t_idx * 8 + right]
    IN  (IF popcount(my_hand) = 1 THEN 2 * MO_DOMINO ELSE 0)
          + (IF depth >= 0 /\ depth < MAX_DEPTH_SLOTS
             THEN IF kd[1] = mv THEN 10000 ELSE IF kd[2] = mv THEN 9000 ELSE 0
             ELSE 0)
          + 2 * HistoryAt(history, t_idx, end)
          + (IF TILE_IS_DOUBLE[t_idx] THEN 2 * MO_DOUBLE ELSE 0)
          + TILE_PIPS[t_idx] * MO_PIP_MULT_X2
          + (IF count_moves_bb(opp_hand, new_l, new_r) = 0 THEN 2 * MO_FORCE_PASS ELSE 0)
          + (IF is_ai /\ (opp_hand \cap TILE_00_BIT) # {}
                /\ ((ToggleBit(my_hand, t_idx) \cup opp_hand) \cap ZERO_SUIT_NO_00) = {}
             THEN 2 * MO_GHOST ELSE 0)

\* One pass of the inner while loop: the element sinks past every
\* predecessor whose score is strictly smaller.
RECURSIVE InsertSorted(_, _)
InsertSorted(prefix, x) ==
    IF prefix = <<>> \/ ~(prefix[Len(prefix)].s < x.s) THEN Append(prefix, x)
    ELSE Append(InsertSorted(SubSeq(prefix, 1, Len(prefix) - 1), x), prefix[Len(prefix)])

RECURSIVE InsertionSort(_, _)
InsertionSort(scored, n) ==
    IF n <= 1 THEN SubSeq(scored, 1, n)
    ELSE InsertSorted(InsertionSort(scored, n - 1), scored[n])

\* The region of `ply` after scoring and sorting its first num_moves entries.
order_moves_at_ply(region, num_moves, is_ai, depth, ai_hand, human_hand, left, right, killer, history) ==
    IF num_moves <= 1 THEN region
    ELSE LET scored == [k \in 1 .. num_moves |->
                          [mv |-> region[k],
                           s  |-> MoveScore(region[k], is_ai, depth, ai_hand, human_hand,
                                            left, right, killer, history)]]
             sorted == InsertionSort(scored, num_moves)
         IN  [k \in 1 .. num_moves |-> sorted[k].mv]
               \o SubSeq(region, num_moves + 1, Len(region))

(***************************************************************************)
(* search.rs: the process-wide state and the two routines, choose_move and *)
(* minimax_bb, as a machine whose call stack is explicit.                  *)
(***************************************************************************)
NODE_LIMIT == 20000000

\* A stand-in for NODE_LIMIT in the runs that are to reach the cap: twenty
\* million nodes are beyond explicit-state exploration.
NODE_LIMIT_SCALED == 12

\* How many calls one behaviour makes on the same input.
MaxCalls == 2

VARIABLES G_AI_HAND, G_HUMAN_HAND, G_LEFT, G_RIGHT, G_HASH, G_PLY, G_CONS_PASS,
          G_MATCH_DIFF, G_P1, G_P2, NODE_COUNT, TT_DIAG,
          TT, MOVE_BUF, KILLER, HISTORY_SCORE,
          stack, root, shell, results, session, calls, tt_op, tt_writer, call

\* tt_writer is a history variable: for each slot of the table that a root
\* call has written, the number of the root call that wrote what it holds.
posVars == <<G_AI_HAND, G_HUMAN_HAND, G_LEFT, G_RIGHT, G_HASH, G_PLY, G_CONS_PASS, G_P1, G_P2>>

tableVars == <<TT, TT_GENERATION, MOVE_BUF, KILLER, HISTORY_SCORE>>

vars == <<G_AI_HAND, G_HUMAN_HAND, G_LEFT, G_RIGHT, G_HASH, G_PLY, G_CONS_PASS,
          G_MATCH_DIFF, G_P1, G_P2, NODE_COUNT, TT_DIAG,
          TT, TT_GENERATION, MOVE_BUF, KILLER, HISTORY_SCORE,
          stack, root, shell, results, session, calls, tt_op, tt_writer, call, ZOBRIST>>

EmptyMap == [k \in {} |-> 0]

\* clear_move_ordering_data: every killer slot (-1, -2), every history
\* entry 0.
clear_move_ordering_data == [killer |-> EmptyMap, history |-> EmptyMap]

\* The fields a make writes and an unmake restores, as one record.
Pos == [ai_hand |-> G_AI_HAND, human_hand |-> G_HUMAN_HAND, left |-> G_LEFT,
        right |-> G_RIGHT, hash |-> G_HASH, ply |-> G_PLY, cons_pass |-> G_CONS_PASS,
        p1 |-> G_P1, p2 |-> G_P2]

SetPos(p) ==
    /\ G_AI_HAND' = p.ai_hand
    /\ G_HUMAN_HAND' = p.human_hand
    /\ G_LEFT' = p.left
    /\ G_RIGHT' = p.right
    /\ G_HASH' = p.hash
    /\ G_PLY' = p.ply
    /\ G_CONS_PASS' = p.cons_pass
    /\ G_P1' = p.p1
    /\ G_P2' = p.p2

NoP1 == [who |-> -1, l |-> 0, r |-> 0, tile |-> -1]

NoP2 == [who |-> -1, l |-> 0, r |-> 0]

\* compute_new_ends without the empty-board case set: the first tile leaves
\* the ends as they were.  The fault C8_EndsArePips detects.
compute_new_ends_no_first(t_idx, end, left, right) ==
    IF left = 7 THEN <<left, right>>
    ELSE IF end = 0 THEN <<NEW_END_LEFT[t_idx * 8 + left], right>>
    ELSE <<left, NEW_END_RIGHT[t_idx * 8 + right]>>

compute_new_ends(t_idx, end, left, right) ==
    IF left = 7 THEN <<TILE_LOW[t_idx], TILE_HIGH[t_idx]>>
    ELSE IF end = 0 THEN <<NEW_END_LEFT[t_idx * 8 + left], right>>
    ELSE <<left, NEW_END_RIGHT[t_idx * 8 + right]>>

\* The score of the position a placement by `mover_is_ai` has just made, when
\* it ends the game there: "call" when the search has to go on.
\* The test of a made move without its block case: the fault
\* C35_NoDoublePass detects.
TerminalKindNoBlock(m, mover_is_ai) ==
    IF (IF mover_is_ai THEN m.ai_hand ELSE m.human_hand) = {} THEN "domino" ELSE "call"

TerminalKind(m, mover_is_ai) ==
    LET mine == IF mover_is_ai THEN m.ai_hand ELSE m.human_hand
        oth  == IF mover_is_ai THEN m.human_hand ELSE m.ai_hand
    IN  IF mine = {} THEN "domino"
        ELSE IF count_moves_bb(oth, m.left, m.right) = 0
                /\ count_moves_bb(mine, m.left, m.right) = 0 THEN "block"
        ELSE "call"

TerminalScore(m, mover_is_ai) ==
    IF TerminalKind(m, mover_is_ai) = "domino"
    THEN score_domino_bb(mover_is_ai, IF mover_is_ai THEN m.human_hand ELSE m.ai_hand)
    ELSE score_block_bb(m.ai_hand, m.human_hand,
                        m.p1.who, m.p1.l, m.p1.r, m.p1.tile, m.p2.who, m.p2.l, m.p2.r)

\* minimax_make with the tile toggled in the opponent's hand: the fault
\* C7_HandsShrink detects.
minimax_make_other_hand(p, saved, is_ai, t_idx, end) ==
    LET ne    == compute_new_ends(t_idx, end, saved.left, saved.right)
        new_l == ne[1]
        new_r == ne[2]
        h1    == Xor(saved.hash, tile_hash(t_idx, IF is_ai THEN 0 ELSE 1))
        h2    == Xor(Xor(h1, left_hash(saved.left)), left_hash(new_l))
        h3    == Xor(Xor(h2, right_hash(saved.right)), right_hash(new_r))
        h4    == Xor(h3, side_hash)
    IN  [ai_hand    |-> IF is_ai THEN p.ai_hand ELSE ToggleBit(p.ai_hand, t_idx),
         human_hand |-> IF is_ai THEN ToggleBit(p.human_hand, t_idx) ELSE p.human_hand,
         left       |-> new_l,
         right      |-> new_r,
         hash       |-> IF saved.cons_pass > 0 THEN Xor(h4, conspass_hash(1)) ELSE h4,
         ply        |-> saved.ply + 1,
         cons_pass  |-> 0,
         p1         |-> [who |-> IF is_ai THEN 1 ELSE 0, l |-> new_l, r |-> new_r,
                         tile |-> t_idx],
         p2         |-> [who |-> saved.p1.who, l |-> saved.p1.l, r |-> saved.p1.r]]

\* minimax_make that leaves G_PLY where it was: the fault C26_NoAliasing
\* detects.
minimax_make_same_ply(p, saved, is_ai, t_idx, end) ==
    LET ne    == compute_new_ends(t_idx, end, saved.left, saved.right)
        new_l == ne[1]
        new_r == ne[2]
        h1    == Xor(saved.hash, tile_hash(t_idx, IF is_ai THEN 0 ELSE 1))
        h2    == Xor(Xor(h1, left_hash(saved.left)), left_hash(new_l))
        h3    == Xor(Xor(h2, right_hash(saved.right)), right_hash(new_r))
        h4    == Xor(h3, side_hash)
    IN  [ai_hand    |-> IF is_ai THEN ToggleBit(p.ai_hand, t_idx) ELSE p.ai_hand,
         human_hand |-> IF is_ai THEN p.human_hand ELSE ToggleBit(p.human_hand, t_idx),
         left       |-> new_l,
         right      |-> new_r,
         hash       |-> IF saved.cons_pass > 0 THEN Xor(h4, conspass_hash(1)) ELSE h4,
         ply        |-> saved.ply,
         cons_pass  |-> 0,
         p1         |-> [who |-> IF is_ai THEN 1 ELSE 0, l |-> new_l, r |-> new_r,
                         tile |-> t_idx],
         p2         |-> [who |-> saved.p1.who, l |-> saved.p1.l, r |-> saved.p1.r]]

\* minimax_make that does not push P1 to P2: the fault C33_PuppeteerTracksLine
\* detects.
minimax_make_keeps_p2(p, saved, is_ai, t_idx, end) ==
    LET ne    == compute_new_ends(t_idx, end, saved.left, saved.right)
        new_l == ne[1]
        new_r == ne[2]
        h1    == Xor(saved.hash, tile_hash(t_idx, IF is_ai THEN 0 ELSE 1))
        h2    == Xor(Xor(h1, left_hash(saved.left)), left_hash(new_l))
        h3    == Xor(Xor(h2, right_hash(saved.right)), right_hash(new_r))
        h4    == Xor(h3, side_hash)
    IN  [ai_hand    |-> IF is_ai THEN ToggleBit(p.ai_hand, t_idx) ELSE p.ai_hand,
         human_hand |-> IF is_ai THEN p.human_hand ELSE ToggleBit(p.human_hand, t_idx),
         left       |-> new_l,
         right      |-> new_r,
         hash       |-> IF saved.cons_pass > 0 THEN Xor(h4, conspass_hash(1)) ELSE h4,
         ply        |-> saved.ply + 1,
         cons_pass  |-> 0,
         p1         |-> [who |-> IF is_ai THEN 1 ELSE 0, l |-> new_l, r |-> new_r,
                         tile |-> t_idx],
         p2         |-> saved.p2]

\* The make of minimax_bb's loop body (lines 227-253 and 315-339).
minimax_make(p, saved, is_ai, t_idx, end) ==
    LET ne    == compute_new_ends(t_idx, end, saved.left, saved.right)
        new_l == ne[1]
        new_r == ne[2]
        h1    == Xor(saved.hash, tile_hash(t_idx, IF is_ai THEN 0 ELSE 1))
        h2    == Xor(Xor(h1, left_hash(saved.left)), left_hash(new_l))
        h3    == Xor(Xor(h2, right_hash(saved.right)), right_hash(new_r))
        h4    == Xor(h3, side_hash)
    IN  [ai_hand    |-> IF is_ai THEN ToggleBit(p.ai_hand, t_idx) ELSE p.ai_hand,
         human_hand |-> IF is_ai THEN p.human_hand ELSE ToggleBit(p.human_hand, t_idx),
         left       |-> new_l,
         right      |-> new_r,
         hash       |-> IF saved.cons_pass > 0 THEN Xor(h4, conspass_hash(1)) ELSE h4,
         ply        |-> saved.ply + 1,
         cons_pass  |-> 0,
         p1         |-> [who |-> IF is_ai THEN 1 ELSE 0, l |-> new_l, r |-> new_r,
                         tile |-> t_idx],
         p2         |-> [who |-> saved.p1.who, l |-> saved.p1.l, r |-> saved.p1.r]]

\* minimax_unmake that leaves the second-to-last placer as the make set it:
\* the fault C6_ReturnRestores detects.
minimax_unmake_keeps_p2(p, saved, is_ai, t_idx) ==
    [ai_hand    |-> IF is_ai THEN ToggleBit(p.ai_hand, t_idx) ELSE p.ai_hand,
     human_hand |-> IF is_ai THEN p.human_hand ELSE ToggleBit(p.human_hand, t_idx),
     left       |-> saved.left,
     right      |-> saved.right,
     hash       |-> saved.hash,
     ply        |-> saved.ply,
     cons_pass  |-> saved.cons_pass,
     p1         |-> saved.p1,
     p2         |-> p.p2]

\* The unmake of minimax_bb's loop body (lines 270-282 and 356-368).
minimax_unmake(p, saved, is_ai, t_idx) ==
    [ai_hand    |-> IF is_ai THEN ToggleBit(p.ai_hand, t_idx) ELSE p.ai_hand,
     human_hand |-> IF is_ai THEN p.human_hand ELSE ToggleBit(p.human_hand, t_idx),
     left       |-> saved.left,
     right      |-> saved.right,
     hash       |-> saved.hash,
     ply        |-> saved.ply,
     cons_pass  |-> saved.cons_pass,
     p1         |-> saved.p1,
     p2         |-> saved.p2]

\* The pass of minimax_bb (lines 122-125).
minimax_pass(p) ==
    LET h1 == Xor(p.hash, side_hash)
        h2 == IF p.cons_pass > 0 THEN Xor(h1, conspass_hash(1)) ELSE h1
        new_cons_pass == p.cons_pass + 1
    IN  [p EXCEPT !.hash = IF new_cons_pass > 0 THEN Xor(h2, conspass_hash(1)) ELSE h2,
                  !.cons_pass = new_cons_pass]

\* The make of choose_move's root loop (lines 548-582).
root_make(p, root_ai_hand, root_hash, t_idx, end) ==
    LET ne    == compute_new_ends(t_idx, end, p.left, p.right)
        new_l == ne[1]
        new_r == ne[2]
        h1    == Xor(root_hash, tile_hash(t_idx, 0))
        h2    == Xor(Xor(h1, left_hash(p.left)), left_hash(new_l))
        h3    == Xor(Xor(h2, right_hash(p.right)), right_hash(new_r))
    IN  [ai_hand    |-> ToggleBit(root_ai_hand, t_idx),
         human_hand |-> p.human_hand,
         left       |-> new_l,
         right      |-> new_r,
         hash       |-> Xor(h3, side_hash),
         ply        |-> 1,
         cons_pass  |-> 0,
         p1         |-> [who |-> 1, l |-> new_l, r |-> new_r, tile |-> t_idx],
         p2         |-> [who |-> p.p1.who, l |-> p.p1.l, r |-> p.p1.r]]

\* The unmake of choose_move's root loop (lines 607-619).
root_unmake(p, sv) ==
    [ai_hand    |-> sv.root_ai_hand,
     human_hand |-> p.human_hand,
     left       |-> sv.saved_root_left,
     right      |-> sv.saved_root_right,
     hash       |-> sv.root_hash,
     ply        |-> 0,
     cons_pass  |-> 0,
     p1         |-> sv.saved_rp1,
     p2         |-> sv.saved_rp2]

\* The "best move to front" swap done after a probe (lines 184-196, 502-514).
HintToFront(region, num_moves, tile, end) ==
    LET at == {mi \in 2 .. num_moves : region[mi] = <<tile, end>>}
    IN  IF at = {} THEN region
        ELSE LET mi == CHOOSE a \in at : \A b \in at : a <= b
             IN  [region EXCEPT ![1] = region[mi], ![mi] = region[1]]

\* An activation record of minimax_bb.  entry, via and path are history
\* fields: the position at the call, how the caller reached it, and the
\* return statement taken.
NewFrame(is_ai, depth, alpha, beta, ext, via, at) ==
    [is_ai |-> is_ai, depth |-> depth, alpha |-> alpha, beta |-> beta, ext |-> ext,
     pc |-> "enter", num_moves |-> 0, i |-> 0, best |-> 0,
     best_move_idx |-> -1, best_move_end |-> -1,
     orig_alpha |-> alpha, orig_beta |-> beta, saved |-> at,
     t_idx |-> -1, end |-> -1, sc |-> 0, ret |-> 0,
     entry |-> at, via |-> via, path |-> "none"]

Top == stack[Len(stack)]

SetTop(f) == [stack EXCEPT ![Len(stack)] = f]

Returning(f, value, path) == [f EXCEPT !.pc = "ret", !.ret = value, !.path = path]

ZeroDiag == [probes |-> 0, hits |-> 0, cutoffs |-> 0, hints |-> 0]

NoCall == [ai_hand |-> {}, human_hand |-> {}, left |-> 7, right |-> 7, cons_pass |-> 0,
           match_diff |-> 0, p1 |-> NoP1, p2 |-> NoP2, node_limit |-> NODE_LIMIT]

NoSaved == [root_ai_hand |-> {}, root_hash |-> {}, saved_root_left |-> 7,
            saved_root_right |-> 7, saved_rp1 |-> NoP1, saved_rp2 |-> NoP2]

\* The locals of choose_move with best_tile_idx begun at 0: the fault
\* C1_BestMoveLegal detects.
RootIdleBestZero ==
    [pc |-> "idle", caller |-> "none", input |-> NoCall, node_limit |-> NODE_LIMIT,
     total_tiles |-> 0, iter_depth |-> 0, num_moves |-> 0, alpha_w |-> 0, beta_w |-> 0,
     asp_retry |-> 0, iter_best_score |-> 0, iter_best_tile_idx |-> -1,
     iter_best_end |-> -1, iter_complete |-> TRUE, root_scores |-> <<>>, cur_alpha |-> 0,
     i |-> 0, t_idx |-> -1, end |-> -1, score |-> 0, sv |-> NoSaved,
     best_tile_idx |-> 0, best_end |-> -1, prev_score |-> 0, last_depth |-> 0,
     last_nodes |-> 0, committed_scores |-> <<>>, stop |-> "none"]

\* The locals of choose_move, with the place the routine is at.
RootIdle ==
    [pc |-> "idle", caller |-> "none", input |-> NoCall, node_limit |-> NODE_LIMIT,
     total_tiles |-> 0, iter_depth |-> 0, num_moves |-> 0, alpha_w |-> 0, beta_w |-> 0,
     asp_retry |-> 0, iter_best_score |-> 0, iter_best_tile_idx |-> -1,
     iter_best_end |-> -1, iter_complete |-> TRUE, root_scores |-> <<>>, cur_alpha |-> 0,
     i |-> 0, t_idx |-> -1, end |-> -1, score |-> 0, sv |-> NoSaved,
     best_tile_idx |-> -1, best_end |-> -1, prev_score |-> 0, last_depth |-> 0,
     last_nodes |-> 0, committed_scores |-> <<>>, stop |-> "none"]

MAX_ITER_DEPTH == 50

ASP_RETRIES == 3

\* compute_root_hash indexes left_hash and right_hash, arrays of 8.
choose_move_ok(a) == a.left \in 0 .. 7 /\ a.right \in 0 .. 7

\* choose_move, lines 436-485: the globals, the root hash, the generation,
\* the ordering tables and the diagnostics.
ChooseMoveEntry(a, caller) ==
    /\ SetPos([ai_hand |-> a.ai_hand, human_hand |-> a.human_hand, left |-> a.left,
               right |-> a.right,
               hash |-> compute_root_hash(a.ai_hand, a.human_hand, a.left, a.right, TRUE, 0),
               ply |-> 0, cons_pass |-> a.cons_pass, p1 |-> a.p1, p2 |-> a.p2])
    /\ G_MATCH_DIFF' = a.match_diff
    /\ TT_GENERATION' = tt_new_generation(TT_GENERATION)
    /\ KILLER' = EmptyMap
    /\ HISTORY_SCORE' = EmptyMap
    /\ TT_DIAG' = ZeroDiag
    /\ root' = [RootIdle EXCEPT !.pc = "iter", !.caller = caller, !.input = a,
                                !.node_limit = a.node_limit,
                                !.total_tiles = popcount(a.ai_hand) + popcount(a.human_hand),
                                !.iter_depth = 1]
    /\ calls' = calls + 1
    /\ UNCHANGED <<NODE_COUNT, TT, MOVE_BUF, stack, results, session, ZOBRIST, tt_op, tt_writer, call>>

\* tt_writer after a tt_store that left the table as tt1: the slot belongs
\* to the running root call when the store changed it.
WrittenBy(tt1, idx) ==
    IF TtSlot(tt1, idx) # TtSlot(TT, idx) THEN (idx :> calls) @@ tt_writer ELSE tt_writer

\* The head of one iteration of the deepening loop, lines 489-530.
IterBegin ==
    /\ root.pc = "iter"
    /\ UNCHANGED <<G_MATCH_DIFF, TT_DIAG, TT, TT_GENERATION, KILLER, HISTORY_SCORE, stack,
                   results, session, ZOBRIST, calls, tt_op, tt_writer, call>>
    /\ UNCHANGED posVars
    /\ IF ~generate_moves_ok(G_LEFT, G_RIGHT)
       THEN /\ root' = [root EXCEPT !.pc = "trapped"]
            /\ shell' = [shell EXCEPT !.phase = "trapped"]
            /\ UNCHANGED <<NODE_COUNT, MOVE_BUF>>
       ELSE LET moves   == generate_moves(G_AI_HAND, G_LEFT, G_RIGHT)
                n       == Len(moves)
                buf1    == WriteMoves(MOVE_BUF, 0, moves)
                region2 == IF n > 2
                           THEN order_moves_at_ply(buf1[0], n, TRUE, root.iter_depth,
                                                   G_AI_HAND, G_HUMAN_HAND, G_LEFT, G_RIGHT,
                                                   KILLER, HISTORY_SCORE)
                           ELSE buf1[0]
                pv_hit  == tt_probe(TT, G_HASH, 0, -100000, 100000)
                region3 == IF pv_hit.hit /\ pv_hit.best_idx >= 0
                           THEN HintToFront(region2, n, pv_hit.best_idx, pv_hit.best_end)
                           ELSE region2
                asp_window == IF root.iter_depth >= 6 THEN 15 ELSE 30
            IN  /\ NODE_COUNT' = 0
                /\ MOVE_BUF' = (0 :> region3) @@ MOVE_BUF
                /\ shell' = shell
                /\ root' = [root EXCEPT
                              !.pc = "asp", !.num_moves = n, !.asp_retry = 0,
                              !.alpha_w = IF root.iter_depth <= 1 THEN -100000
                                          ELSE root.prev_score - asp_window,
                              !.beta_w  = IF root.iter_depth <= 1 THEN 100000
                                          ELSE root.prev_score + asp_window,
                              !.iter_best_score = -100000, !.iter_best_tile_idx = -1,
                              !.iter_best_end = -1, !.iter_complete = TRUE,
                              !.root_scores = <<>>]

\* The head of one aspiration attempt, lines 533-541.
AspBegin ==
    /\ root.pc = "asp"
    /\ root' = [root EXCEPT
                  !.iter_best_score = -100000, !.iter_best_tile_idx = -1,
                  !.iter_best_end = -1, !.iter_complete = TRUE, !.root_scores = <<>>,
                  !.cur_alpha = root.alpha_w, !.i = 0,
                  !.sv = [@ EXCEPT !.root_ai_hand = G_AI_HAND, !.root_hash = G_HASH],
                  !.pc = IF root.num_moves = 0 THEN "aspend" ELSE "loop"]
    /\ UNCHANGED <<G_MATCH_DIFF, NODE_COUNT, TT_DIAG, stack, shell, results, session, ZOBRIST, calls,
                   tt_op, tt_writer, call>>
    /\ UNCHANGED posVars
    /\ UNCHANGED tableVars

\* The make of root move i and its score or its first search, lines 544-604.
RootMake ==
    /\ root.pc = "loop"
    /\ LET mv   == MOVE_BUF[0][root.i + 1]
           m    == root_make(Pos, root.sv.root_ai_hand, root.sv.root_hash, mv[1], mv[2])
           kind == TerminalKind(m, TRUE)
       IN  /\ SetPos(m)
           /\ root' = [root EXCEPT
                         !.t_idx = mv[1], !.end = mv[2],
                         !.sv = [@ EXCEPT !.saved_root_left = G_LEFT,
                                          !.saved_root_right = G_RIGHT,
                                          !.saved_rp1 = G_P1, !.saved_rp2 = G_P2],
                         !.score = IF kind = "call" THEN @ ELSE TerminalScore(m, TRUE),
                         !.pc = IF kind # "call" THEN "unmake"
                                ELSE IF root.i = 0 THEN "called" ELSE "pvs1"]
           /\ stack' = IF kind # "call" THEN stack
                       ELSE <<NewFrame(FALSE, root.iter_depth - 1, root.cur_alpha,
                                       IF root.i = 0 THEN root.beta_w ELSE root.cur_alpha + 1,
                                       0, "place", m)>>
    /\ UNCHANGED <<G_MATCH_DIFF, NODE_COUNT, TT_DIAG, shell, results, session, ZOBRIST, calls, tt_op, tt_writer, call>>
    /\ UNCHANGED tableVars

\* A root search returns; a null-window score inside the window is searched
\* again with the full window, lines 599-603.
RootReturn ==
    /\ root.pc \in {"called", "pvs1"}
    /\ Len(stack) = 1
    /\ Top.pc = "ret"
    /\ IF root.pc = "pvs1" /\ Top.ret > root.cur_alpha /\ Top.ret < root.beta_w
       THEN /\ stack' = <<NewFrame(FALSE, root.iter_depth - 1, root.cur_alpha, root.beta_w,
                                   0, "place", Pos)>>
            /\ root' = [root EXCEPT !.pc = "called"]
       ELSE /\ stack' = <<>>
            /\ root' = [root EXCEPT !.pc = "unmake", !.score = Top.ret]
    /\ UNCHANGED <<G_MATCH_DIFF, NODE_COUNT, TT_DIAG, shell, results, session, ZOBRIST, calls, tt_op, tt_writer, call>>
    /\ UNCHANGED posVars
    /\ UNCHANGED tableVars

\* The unmake of root move i and the bookkeeping after it, lines 607-635.
RootUnmake ==
    /\ root.pc = "unmake"
    /\ SetPos(root_unmake(Pos, root.sv))
    /\ LET better == root.score > root.iter_best_score
           capped == NODE_COUNT >= root.node_limit
       IN  root' = [root EXCEPT
                      !.root_scores = Append(@, <<root.t_idx, root.end, root.score>>),
                      !.iter_best_score = IF better THEN root.score ELSE @,
                      !.iter_best_tile_idx = IF better THEN root.t_idx ELSE @,
                      !.iter_best_end = IF better THEN root.end ELSE @,
                      !.cur_alpha = IF root.score > @ THEN root.score ELSE @,
                      !.iter_complete = IF capped THEN FALSE ELSE @,
                      !.i = @ + 1,
                      !.pc = IF capped \/ root.i + 1 = root.num_moves THEN "aspend"
                             ELSE "loop"]
    /\ UNCHANGED <<G_MATCH_DIFF, NODE_COUNT, TT_DIAG, stack, shell, results, session, ZOBRIST, calls,
                   tt_op, tt_writer, call>>
    /\ UNCHANGED tableVars

\* An attempt end that retries on a failed attempt without widening the
\* window.
AspEndKeepsWindow ==
    /\ root.pc = "aspend"
    /\ LET low   == root.iter_complete /\ root.iter_best_score <= root.alpha_w
           high  == root.iter_complete /\ root.iter_best_score >= root.beta_w
           again == (low \/ high) /\ root.asp_retry + 1 < ASP_RETRIES
       IN  root' = [root EXCEPT
                      !.asp_retry = IF again THEN @ + 1 ELSE @,
                      !.pc = IF again THEN "asp" ELSE "iterend"]
    /\ UNCHANGED <<G_MATCH_DIFF, NODE_COUNT, TT_DIAG, stack, shell, results, session, ZOBRIST, calls,
                   tt_op, tt_writer, call>>
    /\ UNCHANGED posVars
    /\ UNCHANGED tableVars

\* The end of one aspiration attempt, lines 639-647.
AspEnd ==
    /\ root.pc = "aspend"
    /\ LET low   == root.iter_complete /\ root.iter_best_score <= root.alpha_w
           high  == root.iter_complete /\ root.iter_best_score >= root.beta_w
           again == (low \/ high) /\ root.asp_retry + 1 < ASP_RETRIES
       IN  root' = [root EXCEPT
                      !.alpha_w = IF low THEN -100000 ELSE @,
                      !.beta_w = IF ~low /\ high THEN 100000 ELSE @,
                      !.asp_retry = IF again THEN @ + 1 ELSE @,
                      !.pc = IF again THEN "asp" ELSE "iterend"]
    /\ UNCHANGED <<G_MATCH_DIFF, NODE_COUNT, TT_DIAG, stack, shell, results, session, ZOBRIST, calls,
                   tt_op, tt_writer, call>>
    /\ UNCHANGED posVars
    /\ UNCHANGED tableVars

\* The test of lines 651 and 668 left out: the fault C23_NoMoveResult detects.
IterFoundAlways(r) == TRUE

\* `iter_best_tile_idx >= 0`, lines 651 and 668: the iteration has a best move.
IterFound(r) == r.iter_best_tile_idx >= 0

\* An iteration that ran out of time is dropped: the fault
\* C24_FirstIterationRuns detects.
IterCommitsInTime(r, elapsed_over) == IterFound(r) /\ r.iter_complete /\ ~elapsed_over

\* Lines 651-658: an iteration is committed when it has a best move and was
\* not aborted.  The clock, read at line 679 only, plays no part in it.
IterCommits(r, elapsed_over) == IterFound(r) /\ r.iter_complete

\* The full-solve test with > for >=: the fault C25_StopsOnceSolved detects.
FullSolveStrict(r, node_count) ==
    r.iter_complete /\ node_count < r.node_limit /\ r.iter_depth > r.total_tiles

\* Line 674: the iteration was complete and as deep as there are tiles left.
FullSolve(r, node_count) ==
    r.iter_complete /\ node_count < r.node_limit /\ r.iter_depth >= r.total_tiles

\* The tail of one iteration, lines 651-682.  The clock is the environment's:
\* whether elapsed exceeds three quarters of the budget is either.
IterEnd ==
    /\ root.pc = "iterend"
    /\ \E elapsed_over \in BOOLEAN :
         LET found  == IterFound(root)
             commit == IterCommits(root, elapsed_over)
             adopt  == found /\ ~root.iter_complete
                         /\ (root.iter_best_tile_idx = root.best_tile_idx
                               \/ root.iter_best_score > 500)
             solved == FullSolve(root, NODE_COUNT)
             stop   == IF solved THEN "solved"
                       ELSE IF elapsed_over THEN "time"
                       ELSE IF root.iter_depth = MAX_ITER_DEPTH THEN "depth"
                       ELSE "none"
         IN  /\ TT' = IF commit
                      THEN tt_store(TT, TT_GENERATION, G_HASH, root.iter_depth, TT_EXACT,
                                    root.iter_best_score, root.iter_best_tile_idx,
                                    root.iter_best_end)
                      ELSE TT
             /\ tt_writer' = WrittenBy(TT', TtIndex(G_HASH))
             /\ root' = [root EXCEPT
                           !.best_tile_idx = IF commit \/ adopt THEN root.iter_best_tile_idx
                                             ELSE @,
                           !.best_end = IF commit \/ adopt THEN root.iter_best_end ELSE @,
                           !.prev_score = IF commit THEN root.iter_best_score ELSE @,
                           !.last_depth = IF commit THEN root.iter_depth ELSE @,
                           !.last_nodes = IF commit THEN NODE_COUNT ELSE @,
                           !.committed_scores = IF commit THEN root.root_scores ELSE @,
                           !.stop = stop,
                           !.iter_depth = IF stop = "none" THEN @ + 1 ELSE @,
                           !.pc = IF stop = "none" THEN "iter" ELSE "done"]
    /\ UNCHANGED <<G_MATCH_DIFF, NODE_COUNT, TT_DIAG, TT_GENERATION, MOVE_BUF, KILLER,
                   HISTORY_SCORE, stack, shell, results, session, ZOBRIST, calls, tt_op, call>>
    /\ UNCHANGED posVars

\* The SearchResult, lines 685-696, kept with the call's arguments.
ChooseMoveReturn ==
    /\ root.pc = "done"
    /\ results' = Append(results,
                         [input |-> root.input, best_tile_idx |-> root.best_tile_idx,
                          best_end |-> root.best_end, best_score |-> root.prev_score,
                          depth |-> root.last_depth, nodes |-> root.last_nodes,
                          analysis |-> root.committed_scores, tt_probes |-> TT_DIAG.probes,
                          tt_hits |-> TT_DIAG.hits, tt_cutoffs |-> TT_DIAG.cutoffs,
                          tt_hints |-> TT_DIAG.hints, stop |-> root.stop])
    /\ root' = RootIdle
    /\ shell' = IF root.caller = "wasm" THEN [shell EXCEPT !.phase = "searched"] ELSE shell
    /\ UNCHANGED <<G_MATCH_DIFF, NODE_COUNT, TT_DIAG, stack, session, ZOBRIST, calls, tt_op, tt_writer, call>>
    /\ UNCHANGED posVars
    /\ UNCHANGED tableVars

\* The quiescence gate without its limit on ext: the fault
\* C31_QuiescenceGate detects.
quiescence_extends_unlimited(ext, num_moves, cons_pass, total_remaining, opp_moves) ==
    \/ num_moves = 1
    \/ cons_pass > 0
    \/ (total_remaining <= 8 /\ opp_moves <= 1)

\* `extended` of lines 135-151, for a node with depth <= 0 and a legal move.
quiescence_extends(ext, num_moves, cons_pass, total_remaining, opp_moves) ==
    /\ ext < 6 + Max2(12 - total_remaining, 0)
    /\ \/ num_moves = 1
       \/ cons_pass > 0
       \/ (total_remaining <= 8 /\ opp_moves <= 1)

\* minimax_bb from its first line to the first make, lines 99-217: what it
\* leaves in the move buffer, the diagnostics, the position and the stack.
EnterOutcome ==
    LET f       == Top
        ev      == AsI32(evaluate_bb(G_AI_HAND, G_HUMAN_HAND, G_LEFT, G_RIGHT, G_MATCH_DIFF))
        my_hand == IF f.is_ai THEN G_AI_HAND ELSE G_HUMAN_HAND
        moves   == generate_moves(my_hand, G_LEFT, G_RIGHT)
        n       == Len(moves)
        buf1    == WriteMoves(MOVE_BUF, G_PLY, moves)
        total_remaining == popcount(G_AI_HAND) + popcount(G_HUMAN_HAND)
        opp_hand == IF f.is_ai THEN G_HUMAN_HAND ELSE G_AI_HAND
        extended == quiescence_extends(f.ext, n, G_CONS_PASS, total_remaining,
                                       count_moves_bb(opp_hand, G_LEFT, G_RIGHT))
        depth1  == IF f.depth <= 0 THEN 1 ELSE f.depth
        ext1    == IF f.depth <= 0 THEN f.ext + 1 ELSE f.ext
        tt_hit  == tt_probe(TT, G_HASH, depth1, f.alpha, f.beta)
        probed  == [TT_DIAG EXCEPT !.probes = @ + 1,
                                   !.hits = IF tt_hit.hit THEN @ + 1 ELSE @,
                                   !.cutoffs = IF tt_hit.hit /\ tt_hit.has_score THEN @ + 1 ELSE @,
                                   !.hints = IF tt_hit.hit /\ ~tt_hit.has_score THEN @ + 1 ELSE @]
        region2 == IF n > 2
                   THEN order_moves_at_ply(buf1[G_PLY], n, f.is_ai, depth1, G_AI_HAND,
                                           G_HUMAN_HAND, G_LEFT, G_RIGHT, KILLER, HISTORY_SCORE)
                   ELSE buf1[G_PLY]
        region3 == IF tt_hit.hit /\ tt_hit.best_idx >= 0
                   THEN HintToFront(region2, n, tt_hit.best_idx, tt_hit.best_end)
                   ELSE region2
        passed  == minimax_pass(Pos)
    IN  IF NODE_COUNT + 1 >= root.node_limit
        THEN [buf |-> MOVE_BUF, diag |-> TT_DIAG, pos |-> Pos,
              stack |-> SetTop(Returning(f, ev, "cap"))]
        ELSE IF n = 0
        THEN IF G_CONS_PASS + 1 >= 2
             THEN [buf |-> buf1, diag |-> TT_DIAG, pos |-> Pos,
                   stack |-> SetTop(Returning(f,
                               score_block_bb(G_AI_HAND, G_HUMAN_HAND, G_P1.who, G_P1.l,
                                              G_P1.r, G_P1.tile, G_P2.who, G_P2.l, G_P2.r),
                               "block2"))]
             ELSE [buf |-> buf1, diag |-> TT_DIAG, pos |-> passed,
                   stack |-> Append(SetTop([f EXCEPT !.pc = "passwait", !.saved = Pos]),
                                    NewFrame(~f.is_ai, f.depth, f.alpha, f.beta, f.ext,
                                             "pass", passed))]
        ELSE IF f.depth <= 0 /\ ~extended
        THEN [buf |-> buf1, diag |-> TT_DIAG, pos |-> Pos,
              stack |-> SetTop(Returning(f, ev, "leaf"))]
        ELSE IF tt_hit.hit /\ tt_hit.has_score
        THEN [buf |-> buf1, diag |-> probed, pos |-> Pos,
              stack |-> SetTop(Returning(f, tt_hit.score, "ttcut"))]
        ELSE [buf |-> (G_PLY :> region3) @@ buf1, diag |-> probed, pos |-> Pos,
              stack |-> SetTop([f EXCEPT !.pc = "loop", !.depth = depth1, !.ext = ext1,
                                         !.num_moves = n, !.i = 0,
                                         !.best = IF f.is_ai THEN -100000 ELSE 100000,
                                         !.best_move_idx = -1, !.best_move_end = -1,
                                         !.orig_alpha = f.alpha, !.orig_beta = f.beta,
                                         !.saved = Pos])]

MinimaxEnter ==
    /\ Len(stack) > 0
    /\ Top.pc = "enter"
    /\ NODE_COUNT' = NODE_COUNT + 1
    /\ \E o \in {EnterOutcome} :
         /\ MOVE_BUF' = o.buf
         /\ TT_DIAG' = o.diag
         /\ SetPos(o.pos)
         /\ stack' = o.stack
    /\ UNCHANGED <<G_MATCH_DIFF, TT, TT_GENERATION, KILLER, HISTORY_SCORE, root, shell,
                   results, session, ZOBRIST, calls, tt_op, tt_writer, call>>

\* The make of move i and its score or its search, lines 223-267 and 311-353.
MinimaxMake ==
    /\ Len(stack) > 0
    /\ Top.pc = "loop"
    /\ LET f    == Top
           mv   == MOVE_BUF[f.saved.ply][f.i + 1]
           m    == minimax_make(Pos, f.saved, f.is_ai, mv[1], mv[2])
           kind == TerminalKind(m, f.is_ai)
       IN  /\ SetPos(m)
           /\ stack' = IF kind = "call"
                       THEN Append(SetTop([f EXCEPT !.t_idx = mv[1], !.end = mv[2],
                                                    !.pc = "called"]),
                                   NewFrame(~f.is_ai, f.depth - 1, f.alpha, f.beta, f.ext,
                                            "place", m))
                       ELSE SetTop([f EXCEPT !.t_idx = mv[1], !.end = mv[2],
                                             !.sc = TerminalScore(m, f.is_ai),
                                             !.pc = "unmake"])
    /\ UNCHANGED <<G_MATCH_DIFF, NODE_COUNT, TT_DIAG, root, shell, results, session, ZOBRIST, calls,
                   tt_op, tt_writer, call>>
    /\ UNCHANGED tableVars

\* A nested call returns its value to the call site.
MinimaxReturn ==
    /\ Len(stack) >= 2
    /\ Top.pc = "ret"
    /\ LET k      == Len(stack) - 1
           parent == stack[k]
       IN  stack' = [SubSeq(stack, 1, k) EXCEPT
                       ![k] = [parent EXCEPT !.sc = Top.ret,
                                             !.pc = IF parent.pc = "passwait" THEN "passret"
                                                    ELSE "unmake"]]
    /\ UNCHANGED <<G_MATCH_DIFF, NODE_COUNT, TT_DIAG, root, shell, results, session, ZOBRIST, calls,
                   tt_op, tt_writer, call>>
    /\ UNCHANGED posVars
    /\ UNCHANGED tableVars

\* The restore after a pass, lines 129-131.
MinimaxPassReturn ==
    /\ Len(stack) > 0
    /\ Top.pc = "passret"
    /\ SetPos([Pos EXCEPT !.hash = Top.saved.hash, !.cons_pass = Top.saved.cons_pass])
    /\ stack' = SetTop(Returning(Top, Top.sc, "pass"))
    /\ UNCHANGED <<G_MATCH_DIFF, NODE_COUNT, TT_DIAG, root, shell, results, session, ZOBRIST, calls,
                   tt_op, tt_writer, call>>
    /\ UNCHANGED tableVars

\* The flag with strict comparisons: the fault C32_FlagAssignment detects.
tt_flag_strict(best, orig_alpha, orig_beta) ==
    IF best < orig_alpha THEN TT_UPPER
    ELSE IF best > orig_beta THEN TT_LOWER
    ELSE TT_EXACT

\* tt_flag of lines 298-304 and 383-389.
tt_flag_of(best, orig_alpha, orig_beta) ==
    IF best <= orig_alpha THEN TT_UPPER
    ELSE IF best >= orig_beta THEN TT_LOWER
    ELSE TT_EXACT

\* The unmake of move i, the best/alpha/beta update, the cutoff, and after
\* the last move the store, lines 270-306 and 356-391.
MinimaxUnmake ==
    /\ Len(stack) > 0
    /\ Top.pc = "unmake"
    /\ LET f        == Top
           p        == minimax_unmake(Pos, f.saved, f.is_ai, f.t_idx)
           improved == IF f.is_ai THEN f.sc > f.best ELSE f.sc < f.best
           best1    == IF improved THEN f.sc ELSE f.best
           bmi      == IF improved THEN f.t_idx ELSE f.best_move_idx
           bme      == IF improved THEN f.end ELSE f.best_move_end
           alpha1   == IF f.is_ai /\ best1 > f.alpha THEN best1 ELSE f.alpha
           beta1    == IF ~f.is_ai /\ best1 < f.beta THEN best1 ELSE f.beta
           cutoff   == beta1 <= alpha1
           done     == cutoff \/ f.i + 1 = f.num_moves
           tt_flag  == tt_flag_of(best1, f.orig_alpha, f.orig_beta)
       IN  /\ SetPos(p)
           /\ KILLER' = IF cutoff THEN record_killer(KILLER, f.depth, f.t_idx, f.end)
                        ELSE KILLER
           /\ HISTORY_SCORE' = IF cutoff
                               THEN record_history(HISTORY_SCORE, f.t_idx, f.end, f.depth)
                               ELSE HISTORY_SCORE
           /\ TT' = IF done
                    THEN tt_store(TT, TT_GENERATION, p.hash, f.depth, tt_flag, best1, bmi, bme)
                    ELSE TT
           /\ tt_writer' = WrittenBy(TT', TtIndex(p.hash))
           /\ stack' = SetTop([f EXCEPT !.best = best1, !.best_move_idx = bmi,
                                        !.best_move_end = bme, !.alpha = alpha1,
                                        !.beta = beta1, !.i = @ + 1,
                                        !.pc = IF done THEN "ret" ELSE "loop",
                                        !.ret = IF done THEN best1 ELSE @,
                                        !.path = IF cutoff THEN "cutoff"
                                                 ELSE IF done THEN "loop" ELSE @])
    /\ UNCHANGED <<G_MATCH_DIFF, NODE_COUNT, TT_DIAG, TT_GENERATION, MOVE_BUF, root, shell,
                   results, session, ZOBRIST, calls, tt_op, call>>

(***************************************************************************)
(* lib.rs: wasm_choose_move.  An Option is a sequence of length 0 or 1; a  *)
(* request that serde rejects has parses = FALSE.                          *)
(***************************************************************************)
unwrap_or(opt, default) == IF opt = <<>> THEN default ELSE opt[1]

\* format!("{}-{}", lo, hi)
FormatTile(lo, hi) == ToString(lo) \o "-" \o ToString(hi)

LegalMoveId(lm) ==
    FormatTile(Min2(lm.tile_low, lm.tile_high), Max2(lm.tile_low, lm.tile_high))

TilesOk(tiles) == \A k \in 1 .. Len(tiles) : tile_id_to_index_ok(tiles[k].low, tiles[k].high)

\* ai_hand |= 1 << idx, over the descriptors.
HandOf(tiles) == {tile_id_to_index(tiles[k].low, tiles[k].high) : k \in 1 .. Len(tiles)}

\* The placements of the history, latest first (lines 163-181).
Placements(history) == {k \in 1 .. Len(history) : ~history[k].pass}

LastOf(ks) == CHOOSE k \in ks : \A j \in ks : j <= k

HistoryOk(history) ==
    \/ Placements(history) = {}
    \/ LET e == history[LastOf(Placements(history))]
       IN  tile_id_to_index_ok(e.tile_low, e.tile_high)

SeedP1(history) ==
    IF Placements(history) = {} THEN NoP1
    ELSE LET e == history[LastOf(Placements(history))]
         IN  [who |-> IF e.player = "ai" THEN 1 ELSE 0, l |-> e.board_left,
              r |-> e.board_right, tile |-> tile_id_to_index(e.tile_low, e.tile_high)]

SeedP2(history) ==
    IF Cardinality(Placements(history)) < 2 THEN NoP2
    ELSE LET ks == Placements(history)
             e  == history[LastOf(ks \ {LastOf(ks)})]
         IN  [who |-> IF e.player = "ai" THEN 1 ELSE 0, l |-> e.board_left,
              r |-> e.board_right]

\* The arguments wasm_choose_move hands to choose_move (lines 132-193).
WasmArgs(rq) ==
    [ai_hand |-> HandOf(rq.ai_tiles), human_hand |-> HandOf(rq.human_tiles),
     left  |-> IF rq.board_empty THEN 7 ELSE unwrap_or(rq.left, 7),
     right |-> IF rq.board_empty THEN 7 ELSE unwrap_or(rq.right, 7),
     cons_pass |-> 0,
     match_diff |-> IF rq.match_score = <<>> THEN 0
                    ELSE rq.match_score[1].ai - rq.match_score[1].human,
     p1 |-> SeedP1(rq.move_history), p2 |-> SeedP2(rq.move_history),
     node_limit |-> NODE_LIMIT]

\* The index of the first entry that matches, 0 when none does.
find_legal_move(moves, tile_id, end) ==
    LET at == {k \in 1 .. Len(moves) : LegalMoveId(moves[k]) = tile_id /\ moves[k].end = end}
    IN  IF at = {} THEN 0 ELSE CHOOSE k \in at : \A j \in at : k <= j

\* find_legal_move_by_tile that takes the first entry whatever its tile: the
\* fault C2_ResponseIsListed detects.
find_legal_move_by_tile_any(moves, tile_id) ==
    IF moves = <<>> THEN 0 ELSE 1

find_legal_move_by_tile(moves, tile_id) ==
    LET at == {k \in 1 .. Len(moves) : LegalMoveId(moves[k]) = tile_id}
    IN  IF at = {} THEN 0 ELSE CHOOSE k \in at : \A j \in at : k <= j

RECURSIVE InsertByScore(_, _)
InsertByScore(prefix, x) ==
    IF prefix = <<>> \/ ~(prefix[Len(prefix)].score < x.score) THEN Append(prefix, x)
    ELSE Append(InsertByScore(SubSeq(prefix, 1, Len(prefix) - 1), x), prefix[Len(prefix)])

\* analysis.sort_by(|a, b| b.score.cmp(&a.score)): stable, descending.
RECURSIVE SortAnalysis(_, _)
SortAnalysis(entries, n) ==
    IF n = 0 THEN <<>> ELSE InsertByScore(SortAnalysis(entries, n - 1), entries[n])

ParseErrorOutput ==
    [tile_id |-> "", end |-> "", best_score |-> 0, depth |-> 0, nodes |-> 0,
     analysis |-> <<>>, parsed |-> FALSE]

\* The SearchOutput built from the result (lines 196-261).
WasmOutput(rq, result) ==
    LET lm == rq.legal_moves
        best_tile_id == IF result.best_tile_idx >= 0
                        THEN FormatTile(TILE_LOW[result.best_tile_idx],
                                        TILE_HIGH[result.best_tile_idx])
                        ELSE IF lm # <<>> THEN LegalMoveId(lm[1])
                        ELSE ""
        best_end == IF result.best_end = 0 THEN "left"
                    ELSE IF result.best_end = 1 THEN "right"
                    ELSE IF lm # <<>> THEN lm[1].end
                    ELSE "left"
        exact   == find_legal_move(lm, best_tile_id, best_end)
        by_tile == find_legal_move_by_tile(lm, best_tile_id)
        entries == [k \in 1 .. Len(result.analysis) |->
                      [tile_id |-> FormatTile(TILE_LOW[result.analysis[k][1]],
                                              TILE_HIGH[result.analysis[k][1]]),
                       end |-> IF result.analysis[k][2] = 0 THEN "left" ELSE "right",
                       score |-> result.analysis[k][3]]]
    IN  [tile_id |-> IF exact # 0 THEN best_tile_id
                     ELSE IF by_tile # 0 THEN best_tile_id
                     ELSE IF lm # <<>> THEN LegalMoveId(lm[1])
                     ELSE "",
         end |-> IF exact # 0 THEN best_end
                 ELSE IF by_tile # 0 THEN lm[by_tile].end
                 ELSE IF lm # <<>> THEN lm[1].end
                 ELSE "left",
         best_score |-> result.best_score, depth |-> result.depth, nodes |-> result.nodes,
         analysis |-> SortAnalysis(entries, Len(entries)), parsed |-> TRUE]

(***************************************************************************)
(* The inputs.  A behaviour takes one of them and makes every call on it.  *)
(***************************************************************************)
Deal(ai_hand, human_hand, left, right, cons_pass, node_limit) ==
    [ai_hand |-> ai_hand, human_hand |-> human_hand, left |-> left, right |-> right,
     cons_pass |-> cons_pass, match_diff |-> 0, p1 |-> NoP1, p2 |-> NoP2,
     node_limit |-> node_limit]

\* Direct calls of choose_move, all valid: disjoint hands, the ends both 7
\* or both pips.
Deals ==
    << Deal({9, 18, 19}, {3, 16, 17}, 2, 3, 0, NODE_LIMIT),
       Deal({10, 15, 22, 24}, {0, 5}, 0, 1, 0, NODE_LIMIT),
       Deal({12, 21, 23, 24}, {6, 17}, 5, 4, 0, NODE_LIMIT),
       Deal({8, 19}, {14}, 7, 7, 0, NODE_LIMIT),
       Deal({0}, {11, 26}, 5, 5, 0, NODE_LIMIT),
       Deal({11, 16}, {26}, 5, 1, 1, NODE_LIMIT),
       Deal({9, 18, 19}, {3, 16, 17}, 2, 3, 0, NODE_LIMIT_SCALED),
       Deal({1}, {27}, 0, 3, 0, NODE_LIMIT),
       Deal({2}, {0}, 2, 5, 0, NODE_LIMIT),
       Deal({8}, {0, 1}, 1, 2, 0, NODE_LIMIT) >>

Tile(low, high) == [low |-> low, high |-> high]

Legal(tile_low, tile_high, end) == [tile_low |-> tile_low, tile_high |-> tile_high, end |-> end]

Placed(player, tile_low, tile_high, board_left, board_right) ==
    [player |-> player, pass |-> FALSE, tile_low |-> tile_low, tile_high |-> tile_high,
     board_left |-> board_left, board_right |-> board_right]

Passed(player) ==
    [player |-> player, pass |-> TRUE, tile_low |-> 0, tile_high |-> 0,
     board_left |-> 0, board_right |-> 0]

Request(ai_tiles, human_tiles, board_empty, left, right, move_history, legal_moves) ==
    [parses |-> TRUE, ai_tiles |-> ai_tiles, human_tiles |-> human_tiles,
     board_empty |-> board_empty, left |-> left, right |-> right,
     move_history |-> move_history, legal_moves |-> legal_moves, match_score |-> <<>>]

MidGame == <<Placed("ai", 5, 5, 5, 5), Placed("human", 5, 1, 1, 5), Passed("ai")>>

\* Requests of wasm_choose_move: well-formed ones with the legal-move list
\* in its several relations to the search's move, and malformed ones.
Requests ==
    << Request(<<Tile(5, 0), Tile(2, 5)>>, <<Tile(0, 1), Tile(1, 6)>>, FALSE, <<1>>, <<5>>,
               MidGame, <<Legal(5, 0, "right"), Legal(5, 2, "right")>>),
       Request(<<Tile(5, 0), Tile(2, 5)>>, <<Tile(0, 1), Tile(1, 6)>>, FALSE, <<1>>, <<5>>,
               MidGame, <<Legal(0, 5, "right"), Legal(2, 5, "left")>>),
       Request(<<Tile(5, 0), Tile(2, 5)>>, <<Tile(0, 1), Tile(1, 6)>>, FALSE, <<1>>, <<5>>,
               <<>>, <<Legal(0, 5, "right")>>),
       Request(<<Tile(5, 0), Tile(2, 5)>>, <<Tile(0, 1), Tile(1, 6)>>, FALSE, <<1>>, <<5>>,
               <<>>, <<>>),
       Request(<<Tile(0, 0)>>, <<Tile(5, 6)>>, FALSE, <<5>>, <<5>>,
               <<>>, <<Legal(3, 3, "up"), Legal(0, 0, "left")>>),
       Request(<<Tile(1, 2), Tile(3, 4)>>, <<Tile(2, 3)>>, TRUE, <<4>>, <<>>,
               <<>>, <<Legal(1, 2, "left"), Legal(3, 4, "left")>>),
       [Request(<<>>, <<>>, FALSE, <<>>, <<>>, <<>>, <<>>) EXCEPT !.parses = FALSE],
       Request(<<Tile(7, 7)>>, <<Tile(0, 1)>>, TRUE, <<>>, <<>>, <<>>, <<Legal(7, 7, "left")>>),
       Request(<<Tile(3, 4)>>, <<Tile(0, 1)>>, FALSE, <<3>>, <<>>, <<>>, <<Legal(3, 4, "left")>>),
       Request(<<Tile(3, 4)>>, <<Tile(0, 1)>>, FALSE, <<3>>, <<3>>,
               <<Placed("human", 3, 9, 3, 3)>>, <<Legal(3, 4, "left")>>) >>

Sessions ==
    {[kind |-> "direct", n |-> d] : d \in 1 .. Len(Deals)}
      \cup {[kind |-> "wasm", n |-> q] : q \in 1 .. Len(Requests)}

\* A direct call of choose_move.
ChooseMove ==
    /\ session.kind = "direct"
    /\ root.pc = "idle"
    /\ calls < MaxCalls
    /\ ChooseMoveEntry(Deals[session.n], "direct")
    /\ UNCHANGED shell

\* wasm_choose_move up to its call of choose_move, lines 113-193.  A panic
\* in the conversions or in the root hash traps: the call never returns.
WasmChooseMove ==
    /\ session.kind = "wasm"
    /\ root.pc = "idle"
    /\ shell.phase = "idle"
    /\ calls < MaxCalls
    /\ LET rq == Requests[session.n]
       IN  IF ~rq.parses
           THEN /\ shell' = [shell EXCEPT !.responses = Append(@, ParseErrorOutput)]
                /\ calls' = calls + 1
                /\ UNCHANGED <<G_MATCH_DIFF, NODE_COUNT, TT_DIAG, stack, root, results,
                               session, ZOBRIST, tt_op, tt_writer, call>>
                /\ UNCHANGED posVars
                /\ UNCHANGED tableVars
           ELSE IF ~(TilesOk(rq.ai_tiles) /\ TilesOk(rq.human_tiles)
                       /\ HistoryOk(rq.move_history)) \/ ~choose_move_ok(WasmArgs(rq))
           THEN /\ shell' = [shell EXCEPT !.phase = "trapped"]
                /\ calls' = calls + 1
                /\ UNCHANGED <<G_MATCH_DIFF, NODE_COUNT, TT_DIAG, stack, root, results,
                               session, ZOBRIST, tt_op, tt_writer, call>>
                /\ UNCHANGED posVars
                /\ UNCHANGED tableVars
           ELSE /\ ChooseMoveEntry(WasmArgs(rq), "wasm")
                /\ shell' = [shell EXCEPT !.phase = "searching"]

\* wasm_choose_move after choose_move has returned, lines 195-263.
WasmRespond ==
    /\ shell.phase = "searched"
    /\ shell' = [shell EXCEPT
                   !.phase = "idle",
                   !.responses = Append(@, WasmOutput(Requests[session.n],
                                                      results[Len(results)]))]
    /\ UNCHANGED <<G_MATCH_DIFF, NODE_COUNT, TT_DIAG, stack, root, results, session, ZOBRIST, calls,
                   tt_op, tt_writer, call>>
    /\ UNCHANGED posVars
    /\ UNCHANGED tableVars

NoOp == [op |-> "none"]

\* call keeps the last call of a routine made on its own: its name, its
\* arguments and what it returned.
NoCallYet == [fn |-> "none"]

\* The statics as the loaded module has them, before any call.  tt_writer
\* is a history variable, empty while no root call has stored.
Statics ==
    /\ G_AI_HAND = {}
    /\ G_HUMAN_HAND = {}
    /\ G_LEFT = 7
    /\ G_RIGHT = 7
    /\ G_HASH = {}
    /\ G_PLY = 0
    /\ G_CONS_PASS = 0
    /\ G_MATCH_DIFF = 0
    /\ G_P1 = NoP1
    /\ G_P2 = NoP2
    /\ NODE_COUNT = 0
    /\ TT_DIAG = ZeroDiag
    /\ TT = EmptyMap
    /\ TT_GENERATION = 0
    /\ MOVE_BUF = EmptyMap
    /\ KILLER = EmptyMap
    /\ HISTORY_SCORE = EmptyMap
    /\ ZOBRIST = generate_zobrist
    /\ stack = <<>>
    /\ root = RootIdle
    /\ shell = [phase |-> "idle", responses |-> <<>>]
    /\ results = <<>>
    /\ calls = 0
    /\ tt_op = NoOp
    /\ tt_writer = EmptyMap
    /\ call = NoCallYet

Init ==
    /\ Statics
    /\ session \in Sessions

Next ==
    \/ ChooseMove
    \/ IterBegin
    \/ AspBegin
    \/ RootMake
    \/ RootReturn
    \/ RootUnmake
    \/ AspEnd
    \/ IterEnd
    \/ ChooseMoveReturn
    \/ MinimaxEnter
    \/ MinimaxMake
    \/ MinimaxReturn
    \/ MinimaxPassReturn
    \/ MinimaxUnmake
    \/ WasmChooseMove
    \/ WasmRespond

Spec == Init /\ [][Next]_vars

(***************************************************************************)
(* Properties.                                                             *)
(***************************************************************************)
\* A valid call: disjoint hands, the ends both 7 or both pips.
ValidCall(a) ==
    /\ a.ai_hand \cap a.human_hand = {}
    /\ \/ (a.left = 7 /\ a.right = 7)
       \/ (a.left \in Pips /\ a.right \in Pips)

\* The rules of the game: a tile of the hand goes on an end whose pip it
\* carries, and anywhere on an empty board.
LegalMoves(a) ==
    {mv \in a.ai_hand \X {0, 1} :
        \/ a.left = 7
        \/ (mv[2] = 0 /\ a.left \in {TILE_LOW[mv[1]], TILE_HIGH[mv[1]]})
        \/ (mv[2] = 1 /\ a.right \in {TILE_LOW[mv[1]], TILE_HIGH[mv[1]]})}

\* C1: for every valid call of choose_move, under the node cap the code is
\* built with, the returned best_tile_idx is -1 exactly when the AI has no
\* legal move against the ends; otherwise it is a tile of ai_hand and
\* (best_tile_idx, best_end) is a legal move.
C1_BestMoveLegal ==
    \A k \in 1 .. Len(results) :
        LET r == results[k]
            a == r.input
        IN  (ValidCall(a) /\ a.node_limit = NODE_LIMIT) =>
                /\ (r.best_tile_idx = -1) <=> (LegalMoves(a) = {})
                /\ r.best_tile_idx # -1 =>
                       /\ r.best_tile_idx \in a.ai_hand
                       /\ <<r.best_tile_idx, r.best_end>> \in LegalMoves(a)

\* A call on a non-empty board with several legal moves has returned one.
C1_Witness ==
    /\ results # <<>>
    /\ results[1].input.left # 7
    /\ Cardinality(LegalMoves(results[1].input)) > 1
    /\ results[1].best_tile_idx >= 0
    /\ results[1].input.node_limit = NODE_LIMIT

\* The tile id and the end the search's move has in the response's notation.
SearchTileId(r) == FormatTile(TILE_LOW[r.best_tile_idx], TILE_HIGH[r.best_tile_idx])

SearchEnd(r) == IF r.best_end = 0 THEN "left" ELSE "right"

Listed(lm, tile_id, end) ==
    \E j \in 1 .. Len(lm) : LegalMoveId(lm[j]) = tile_id /\ lm[j].end = end

FirstWithTile(lm, tile_id) ==
    CHOOSE j \in 1 .. Len(lm) :
        /\ LegalMoveId(lm[j]) = tile_id
        /\ \A i \in 1 .. j - 1 : LegalMoveId(lm[i]) # tile_id

\* C2: when legal_moves is non-empty the emitted (tile_id, end) is one of its
\* entries: the search's move if listed exactly, else the first entry with
\* the search's tile (and that entry's end), else the first entry; when
\* legal_moves is empty the response is the empty tile id with end "left".
C2_ResponseIsListed ==
    (session.kind = "wasm" /\ Requests[session.n].parses) =>
        \A k \in 1 .. Len(shell.responses) :
            LET lm  == Requests[session.n].legal_moves
                r   == results[k]
                out == shell.responses[k]
                has == r.best_tile_idx >= 0
            IN  IF lm = <<>> THEN out.tile_id = "" /\ out.end = "left"
                ELSE /\ Listed(lm, out.tile_id, out.end)
                     /\ IF has /\ Listed(lm, SearchTileId(r), SearchEnd(r))
                        THEN out.tile_id = SearchTileId(r) /\ out.end = SearchEnd(r)
                        ELSE IF has /\ \E j \in 1 .. Len(lm) : LegalMoveId(lm[j]) = SearchTileId(r)
                        THEN /\ out.tile_id = SearchTileId(r)
                             /\ out.end = lm[FirstWithTile(lm, SearchTileId(r))].end
                        ELSE out.tile_id = LegalMoveId(lm[1]) /\ out.end = lm[1].end

\* A response whose tile is the search's but whose end is taken from the
\* list, the search's own end not being listed for that tile.
C2_Witness ==
    /\ session.kind = "wasm"
    /\ shell.responses # <<>>
    /\ results # <<>>
    /\ results[1].best_tile_idx >= 0
    /\ shell.responses[1].tile_id = SearchTileId(results[1])
    /\ shell.responses[1].end # SearchEnd(results[1])

\* C3: no request that parses brings wasm_choose_move to a trap: each one is
\* answered with a response value.
C3_NeverTraps ==
    (session.kind = "wasm" /\ Requests[session.n].parses) => shell.phase # "trapped"

\* C4: two back-to-back calls of choose_move on the same input, both run to a
\* full solve so that the clock plays no part, return the same best_tile_idx,
\* best_end, best_score and depth.
C4_TtStable ==
    (/\ Len(results) = 2
     /\ results[1].input = results[2].input
     /\ results[1].stop = "solved"
     /\ results[2].stop = "solved") =>
        /\ results[1].best_tile_idx = results[2].best_tile_idx
        /\ results[1].best_end = results[2].best_end
        /\ results[1].best_score = results[2].best_score
        /\ results[1].depth = results[2].depth

\* choose_move is running.
InRun == root.pc \notin {"idle", "trapped"}

\* Whose turn it is in the position the globals hold: after a make or a pass
\* and before its unmake, the other side's.
SideToMoveIsAi ==
    IF stack # <<>>
    THEN IF Top.pc \in {"unmake", "passret"} THEN ~Top.is_ai ELSE Top.is_ai
    ELSE root.pc # "unmake"

\* C5: at every point of a choose_move run the running hash G_HASH equals
\* compute_root_hash of the current hands, ends, side to move and cons_pass.
C5_HashIsRootHash ==
    InRun =>
        G_HASH = compute_root_hash(G_AI_HAND, G_HUMAN_HAND, G_LEFT, G_RIGHT,
                                   SideToMoveIsAi, G_CONS_PASS)

\* C6: when a call of minimax_bb returns, by whichever return statement, the
\* hands, the ends, the hash, the ply, cons_pass and the records P1 and P2
\* hold the values they held when the call was entered.
C6_ReturnRestores ==
    \A k \in 1 .. Len(stack) :
        stack[k].pc = "ret" =>
            /\ stack[k].path \in {"cap", "block2", "pass", "leaf", "ttcut", "cutoff", "loop"}
            /\ Pos = stack[k].entry

\* A call returns through the beta-cutoff break, at least two plies down.
C6_Witness ==
    /\ Len(stack) >= 2
    /\ Top.pc = "ret"
    /\ Top.path = "cutoff"
    /\ Top.i < Top.num_moves

Total(p) == popcount(p.ai_hand) + popcount(p.human_hand)

\* C7: at every node reached from a valid root the two hands are disjoint and
\* each is a subset of the root's; a node reached by a placement holds one
\* tile fewer than its parent, a node reached by a pass as many.
C7_HandsShrink ==
    (InRun /\ ValidCall(root.input)) =>
        /\ G_AI_HAND \cap G_HUMAN_HAND = {}
        /\ G_AI_HAND \subseteq root.input.ai_hand
        /\ G_HUMAN_HAND \subseteq root.input.human_hand
        /\ \A k \in 1 .. Len(stack) :
               LET e      == stack[k].entry
                   before == IF k = 1 THEN root.total_tiles ELSE Total(stack[k - 1].entry)
               IN  /\ e.ai_hand \cap e.human_hand = {}
                   /\ e.ai_hand \subseteq root.input.ai_hand
                   /\ e.human_hand \subseteq root.input.human_hand
                   /\ Total(e) = IF stack[k].via = "place" THEN before - 1 ELSE before

\* A line with a pass on it followed by a placement.
C7_Witness ==
    /\ InRun
    /\ \E k \in 2 .. Len(stack) : stack[k - 1].via = "pass" /\ stack[k].via = "place"

\* C8: once a tile has been placed on a line, both ends are pips at every
\* later node of the line: neither is 7 and neither is the marker -1.
C8_EndsArePips ==
    (InRun /\ ValidCall(root.input) /\ (G_PLY >= 1 \/ root.input.left # 7)) =>
        /\ G_LEFT \in Pips
        /\ G_RIGHT \in Pips
        /\ \A k \in 1 .. Len(stack) :
               stack[k].entry.left \in Pips /\ stack[k].entry.right \in Pips

\* The second placement of a line that began on an empty board.
C8_Witness ==
    /\ InRun
    /\ root.input.left = 7
    /\ G_PLY >= 2
    /\ G_P2.who # -1


\* The step is minimax_bb's tt_probe (line 161), counted by TT_PROBE_COUNT.
MinimaxProbes ==
    /\ Len(stack) > 0
    /\ Top.pc = "enter"
    /\ TT_DIAG'.probes = TT_DIAG.probes + 1

\* The step is the head of a root iteration, with its tt_probe (line 499).
RootProbes == root.pc = "iter" /\ root'.pc = "asp"

\* The slot a probe of the running hash reads, and whether it answers.
ProbedEntry == TtSlot(TT, TtIndex(G_HASH))

ProbeMatches == ProbedEntry.flag # 0 /\ ProbedEntry.hash = G_HASH

\* The entry's move stands at the front of the region when it is in it.
HintInFront(region, n) ==
    (\E mi \in 1 .. n : region[mi] = <<ProbedEntry.best_idx, ProbedEntry.best_end>>)
      => region[1] = <<ProbedEntry.best_idx, ProbedEntry.best_end>>

\* C12 as stated: during a choose_move call no probe is answered from an
\* entry that an earlier choose_move call stored.
C12_NoEarlierCallEntry ==
    [][(MinimaxProbes \/ RootProbes) =>
         (ProbeMatches => tt_writer[TtIndex(G_HASH)] = calls)]_vars

\* C12 as the code has it: the start of a call leaves the table as it is and
\* tt_probe does not read the generation.  Any entry of the running hash,
\* whichever call stored it, answers the probe: minimax_bb returns its value
\* exactly when its depth suffices and its flag admits it, and otherwise it,
\* like the root, searches the entry's move first.
C12_ProbeIgnoresGeneration ==
    [][/\ (calls' # calls => TT' = TT)
       /\ MinimaxProbes =>
            LET f      == Top
                e      == ProbedEntry
                depth1 == IF f.depth <= 0 THEN 1 ELSE f.depth
                usable == /\ ProbeMatches
                          /\ e.depth >= depth1
                          /\ \/ e.flag = TT_EXACT
                             \/ (e.flag = TT_LOWER /\ e.value >= f.beta)
                             \/ (e.flag = TT_UPPER /\ e.value <= f.alpha)
                g      == stack'[Len(stack)]
            IN  /\ (TT_DIAG'.hits = TT_DIAG.hits + 1) <=> ProbeMatches
                /\ (g.pc = "ret" /\ g.path = "ttcut") <=> usable
                /\ usable => g.ret = e.value
                /\ (ProbeMatches /\ ~usable /\ e.best_idx >= 0)
                     => HintInFront(MOVE_BUF'[G_PLY], g.num_moves)
       /\ RootProbes =>
            ((ProbeMatches /\ ProbedEntry.best_idx >= 0)
               => HintInFront(MOVE_BUF'[0], root'.num_moves))]_vars

\* A score returned from an entry that an earlier call stored.
C12_Witness ==
    /\ Len(stack) > 0
    /\ Top.pc = "ret"
    /\ Top.path = "ttcut"
    /\ tt_writer[TtIndex(G_HASH)] < calls

(***************************************************************************)
(* tt.rs used on its own: a caller that stores, probes, advances the       *)
(* generation and clears in any order, as the module's unit tests do.      *)
(* tt_op keeps the last call with its arguments and what it returned.      *)
(***************************************************************************)
MaxTtOps == 4

\* Two words that share a slot and one that does not.
TtHashA == {0, 3}

TtHashB == {0, 3, 25}

TtHashC == {1}

TtWrite(hash, depth, flag, value, best_idx, best_end) ==
    [hash |-> hash, depth |-> depth, flag |-> flag, value |-> value,
     best_idx |-> best_idx, best_end |-> best_end]

TtWrites ==
    << TtWrite(TtHashA, 5, TT_EXACT, 42, 3, 1),
       TtWrite(TtHashA, 3, TT_LOWER, 50, 1, 0),
       TtWrite(TtHashA, 4, TT_UPPER, -7, -1, -1),
       TtWrite(TtHashB, 2, TT_EXACT, 10, 2, 0),
       TtWrite(TtHashB, 6, TT_LOWER, 50, 6, 1),
       TtWrite(TtHashC, 4, TT_UPPER, 20, 5, 1) >>

TtQuery(hash, depth, alpha, beta) ==
    [hash |-> hash, depth |-> depth, alpha |-> alpha, beta |-> beta]

TtQueries ==
    << TtQuery(TtHashA, 5, -1000, 1000),
       TtQuery(TtHashA, 4, 30, 40),
       TtQuery(TtHashA, 3, 30, 60),
       TtQuery(TtHashB, 2, -10, 0),
       TtQuery(TtHashC, 4, 25, 30),
       TtQuery(TtHashC, 6, 25, 30) >>

TtFrame ==
    /\ UNCHANGED <<G_MATCH_DIFF, NODE_COUNT, TT_DIAG, MOVE_BUF, KILLER, HISTORY_SCORE, stack,
                   root, shell, results, session, ZOBRIST, tt_writer, call>>
    /\ UNCHANGED posVars

TtStoreOp ==
    /\ session.kind = "tt"
    /\ calls < MaxTtOps
    /\ \E k \in 1 .. Len(TtWrites) :
         LET w == TtWrites[k]
         IN  /\ TT' = tt_store(TT, TT_GENERATION, w.hash, w.depth, w.flag, w.value,
                               w.best_idx, w.best_end)
             /\ tt_op' = [op |-> "store", args |-> w]
    /\ calls' = calls + 1
    /\ UNCHANGED TT_GENERATION
    /\ TtFrame

TtProbeOp ==
    /\ session.kind = "tt"
    /\ calls < MaxTtOps
    /\ \E k \in 1 .. Len(TtQueries) :
         LET q == TtQueries[k]
         IN  tt_op' = [op |-> "probe", args |-> q,
                       ret |-> tt_probe(TT, q.hash, q.depth, q.alpha, q.beta)]
    /\ calls' = calls + 1
    /\ UNCHANGED <<TT, TT_GENERATION>>
    /\ TtFrame

TtNewGenerationOp ==
    /\ session.kind = "tt"
    /\ calls < MaxTtOps
    /\ TT_GENERATION' = tt_new_generation(TT_GENERATION)
    /\ tt_op' = [op |-> "new_generation"]
    /\ calls' = calls + 1
    /\ UNCHANGED TT
    /\ TtFrame

TtClearOp ==
    /\ session.kind = "tt"
    /\ calls < MaxTtOps
    /\ TT' = tt_clear(TT)
    /\ tt_op' = [op |-> "clear"]
    /\ calls' = calls + 1
    /\ UNCHANGED TT_GENERATION
    /\ TtFrame

InitTT ==
    /\ Statics
    /\ session = [kind |-> "tt", n |-> 0]

NextTT ==
    \/ TtStoreOp
    \/ TtProbeOp
    \/ TtNewGenerationOp
    \/ TtClearOp

SpecTT == InitTT /\ [][NextTT]_vars

\* C9: tt_probe returns empty exactly when the addressed slot is empty or
\* holds another hash; otherwise it returns the stored best_idx and best_end,
\* and a score, the stored value, exactly when the stored depth is at least
\* the requested one and the flag is EXACT, or LOWER with value >= beta, or
\* UPPER with value <= alpha.  The table and the generation are unchanged.
C9_ProbeContract ==
    [][tt_op'.op = "probe" =>
         LET q == tt_op'.args
             e == TtSlot(TT, TtIndex(q.hash))
             out == tt_op'.ret
         IN  /\ ~out.hit <=> (e.flag = 0 \/ e.hash # q.hash)
             /\ out.hit =>
                  /\ out.best_idx = e.best_idx
                  /\ out.best_end = e.best_end
                  /\ out.has_score <=>
                       /\ e.depth >= q.depth
                       /\ \/ e.flag = TT_EXACT
                          \/ (e.flag = TT_LOWER /\ e.value >= q.beta)
                          \/ (e.flag = TT_UPPER /\ e.value <= q.alpha)
                  /\ out.has_score => out.score = e.value
             /\ ~out.hit => ~out.has_score
             /\ TT' = TT
             /\ TT_GENERATION' = TT_GENERATION]_vars

\* A probe that finds its entry deep enough but gets the hint only: a LOWER
\* bound below beta.
C9_Witness ==
    /\ tt_op.op = "probe"
    /\ tt_op.ret.hit
    /\ ~tt_op.ret.has_score
    /\ TtSlot(TT, TtIndex(tt_op.args.hash)).depth >= tt_op.args.depth
    /\ TtSlot(TT, TtIndex(tt_op.args.hash)).flag = TT_LOWER

\* C10: tt_store writes all seven fields of the addressed slot, stamped with
\* the current generation, exactly when the slot is empty, or is of another
\* generation, or the incoming depth is at least the stored one; otherwise
\* the slot stays as it was, and every other slot stays as it was always.
C10_StoreContract ==
    [][tt_op'.op = "store" =>
         LET w   == tt_op'.args
             idx == TtIndex(w.hash)
             e   == TtSlot(TT, idx)
         IN  /\ TtSlot(TT', idx) =
                  IF e.flag = 0 \/ e.gen # TT_GENERATION \/ w.depth >= e.depth
                  THEN [hash |-> w.hash, depth |-> w.depth, flag |-> w.flag,
                        value |-> w.value, best_idx |-> w.best_idx,
                        best_end |-> w.best_end, gen |-> TT_GENERATION]
                  ELSE e
             /\ \A other \in (DOMAIN TT \cup DOMAIN TT') \ {idx} :
                    TtSlot(TT', other) = TtSlot(TT, other)
             /\ TT_GENERATION' = TT_GENERATION]_vars

\* A store refused: the slot holds a deeper entry of the current generation,
\* here under another hash, and keeps it.
C10_Witness ==
    /\ tt_op.op = "store"
    /\ TtSlot(TT, TtIndex(tt_op.args.hash)).flag # 0
    /\ TtSlot(TT, TtIndex(tt_op.args.hash)).gen = TT_GENERATION
    /\ TtSlot(TT, TtIndex(tt_op.args.hash)).hash # tt_op.args.hash
    /\ TtSlot(TT, TtIndex(tt_op.args.hash)).depth > tt_op.args.depth

(***************************************************************************)
(* The table across root calls.  A root call opens with tt_new_generation  *)
(* (search.rs line 456) and stores during its search; calls counts the     *)
(* root calls begun, without wrapping, and tt_writer remembers which of    *)
(* them wrote the slot.                                                    *)
(***************************************************************************)
\* How many root calls one behaviour makes: enough for the u8 generation to
\* come round to a value it has had.
MaxRootCalls == 257

\* The two stores of test_tt_generation_replacement, on one hash: a deep
\* entry and a shallow one.
GenWrites ==
    << TtWrite(TtHashA, 10, TT_EXACT, 100, 5, 1),
       TtWrite(TtHashA, 2, TT_EXACT, 200, 6, 0) >>

GenFrame ==
    /\ UNCHANGED <<G_MATCH_DIFF, NODE_COUNT, TT_DIAG, MOVE_BUF, KILLER, HISTORY_SCORE, stack,
                   root, shell, results, session, ZOBRIST, call>>
    /\ UNCHANGED posVars

\* The start of a root call: choose_move's tt_new_generation.
GenRootCall ==
    /\ session.kind = "gen"
    /\ calls < MaxRootCalls
    /\ TT_GENERATION' = tt_new_generation(TT_GENERATION)
    /\ calls' = calls + 1
    /\ UNCHANGED <<TT, tt_op, tt_writer>>
    /\ GenFrame

\* A tt_store made by the search of the running root call.
GenStore ==
    /\ session.kind = "gen"
    /\ calls >= 1
    /\ \E k \in 1 .. Len(GenWrites) :
         LET w == GenWrites[k]
         IN  /\ TT' = tt_store(TT, TT_GENERATION, w.hash, w.depth, w.flag, w.value,
                               w.best_idx, w.best_end)
             /\ tt_op' = [op |-> "store", args |-> w]
             /\ tt_writer' = WrittenBy(TT', TtIndex(w.hash))
    /\ UNCHANGED <<TT_GENERATION, calls>>
    /\ GenFrame

InitGen ==
    /\ Statics
    /\ session = [kind |-> "gen", n |-> 0]

NextGen ==
    \/ GenRootCall
    \/ GenStore

SpecGen == InitGen /\ [][NextGen]_vars

\* C11: a tt_store made during a root call always replaces an entry that an
\* earlier root call wrote, whatever the depths and however many root calls
\* lie between the two.
C11_StaleEvicted ==
    [][(calls' = calls /\ tt_op'.op = "store") =>
         LET w   == tt_op'.args
             idx == TtIndex(w.hash)
         IN  (TtSlot(TT, idx).flag # 0 /\ idx \in DOMAIN tt_writer /\ tt_writer[idx] < calls)
               => TtSlot(TT', idx) =
                    [hash |-> w.hash, depth |-> w.depth, flag |-> w.flag, value |-> w.value,
                     best_idx |-> w.best_idx, best_end |-> w.best_end,
                     gen |-> TT_GENERATION]]_vars

(***************************************************************************)
(* scoring.rs on its own.  A behaviour takes one position with its last    *)
(* two placements and calls the scoring routines on it.                    *)
(***************************************************************************)
\* (0,0) (0,1) (1,1) (1,2) (3,3)
ScoreTiles == {0, 1, 7, 8, 18}

\* The ends of the board the placement before the last one left.
ScoreEnds == {1, 2}

\* The last placement: tile t put by who on end of the board (l, r).
LastPlacement(who, t, end, l, r) ==
    LET ne == compute_new_ends(t, end, l, r)
    IN  [who |-> who, l |-> ne[1], r |-> ne[2], tile |-> t]

\* The last two placements as a game gives them: P2 left a board and P1
\* played a tile that fits it; or P1 opened the game; or no tile is recorded
\* for P1.
ScoreHistories ==
    UNION {
      {[p1 |-> LastPlacement(w1, mv[1], mv[2], l, r), p2 |-> [who |-> w2, l |-> l, r |-> r]] :
           mv \in {generate_moves({t}, l, r)[k] : k \in 1 .. Len(generate_moves({t}, l, r))}}
        : w1 \in {0, 1}, w2 \in {0, 1}, t \in ScoreTiles, l \in ScoreEnds, r \in ScoreEnds }
    \cup {[p1 |-> LastPlacement(w1, t, 0, 7, 7), p2 |-> NoP2] : w1 \in {0, 1}, t \in ScoreTiles}
    \cup {[p1 |-> [who |-> w1, l |-> 0, r |-> 0, tile |-> -1], p2 |-> p2] :
            w1 \in {0, 1}, p2 \in {NoP2, [who |-> 1, l |-> 1, r |-> 2]}}

\* The hands hold neither the tile just played nor any tile twice.
ScoreInputs ==
    UNION { UNION { {[kind |-> "score", ai_hand |-> a, human_hand |-> h,
                      p1 |-> hs.p1, p2 |-> hs.p2] :
                        h \in SUBSET ((ScoreTiles \ {hs.p1.tile}) \ a)}
                      : a \in SUBSET (ScoreTiles \ {hs.p1.tile}) }
              : hs \in ScoreHistories }

\* Everything but call.
CallFrame ==
    /\ UNCHANGED <<G_MATCH_DIFF, NODE_COUNT, TT_DIAG, stack, root, shell, results, session,
                   ZOBRIST, calls, tt_op, tt_writer>>
    /\ UNCHANGED posVars
    /\ UNCHANGED tableVars

\* total_pips_bb as the program calls it: a hand against the two hands
\* (score_block_bb, evaluate_bb) or against itself (score_domino_bb).
TotalPipsOp ==
    /\ session.kind = "score"
    /\ \E hand \in {session.ai_hand, session.human_hand} :
         \E both_hands \in {hand, session.ai_hand \cup session.human_hand} :
            call' = [fn |-> "total_pips_bb",
                     args |-> [hand |-> hand, both_hands |-> both_hands],
                     ret |-> total_pips_bb(hand, both_hands)]
    /\ CallFrame

ScoreDominoOp ==
    /\ session.kind = "score"
    /\ \E winner_is_ai \in BOOLEAN :
         LET loser_hand == IF winner_is_ai THEN session.human_hand ELSE session.ai_hand
         IN  call' = [fn |-> "score_domino_bb",
                      args |-> [winner_is_ai |-> winner_is_ai, loser_hand |-> loser_hand],
                      ret |-> score_domino_bb(winner_is_ai, loser_hand)]
    /\ CallFrame

\* detect_aggressor_bb with the hands as score_block_bb passes them.
DetectAggressorOp ==
    /\ session.kind = "score"
    /\ LET x == session
           last_placer_hand == IF x.p1.who = 1 THEN x.ai_hand ELSE x.human_hand
           other_hand       == IF x.p1.who = 1 THEN x.human_hand ELSE x.ai_hand
       IN  call' = [fn |-> "detect_aggressor_bb",
                    args |-> [p1 |-> x.p1, p2 |-> x.p2, last_placer_hand |-> last_placer_hand,
                              other_hand |-> other_hand],
                    ret |-> detect_aggressor_bb(x.p1.who, x.p1.l, x.p1.r, x.p1.tile, x.p2.who,
                                                x.p2.l, x.p2.r, last_placer_hand, other_hand)]
    /\ CallFrame

ScoreBlockOp ==
    /\ session.kind = "score"
    /\ LET x == session
       IN  call' = [fn |-> "score_block_bb",
                    args |-> [ai_hand |-> x.ai_hand, human_hand |-> x.human_hand,
                              p1 |-> x.p1, p2 |-> x.p2],
                    ret |-> score_block_bb(x.ai_hand, x.human_hand, x.p1.who, x.p1.l, x.p1.r,
                                           x.p1.tile, x.p2.who, x.p2.l, x.p2.r)]
    /\ CallFrame

InitScore ==
    /\ Statics
    /\ session \in ScoreInputs

NextScore ==
    \/ TotalPipsOp
    \/ ScoreDominoOp
    \/ DetectAggressorOp
    \/ ScoreBlockOp

SpecScore == InitScore /\ [][NextScore]_vars

\* The rules of the game, written without the engine's tables of masks and
\* new ends, for the scoring routines to be compared with.
RECURSIVE FaceSum(_)
FaceSum(hand) ==
    IF hand = {} THEN 0
    ELSE LET t == CHOOSE x \in hand : TRUE
         IN  TILE_LOW[t] + TILE_HIGH[t] + FaceSum(hand \ {t})

\* Tile (0,0) is index 0; (0,1)..(0,6) are the tiles with low 0 and high 1..6.
GhostPips(hand, both_hands) ==
    FaceSum(hand)
      + (IF 0 \in hand /\ {t \in both_hands : TILE_LOW[t] = 0 /\ TILE_HIGH[t] \in 1 .. 6} = {}
         THEN 13 ELSE 0)

Fits(t, pip) == TILE_LOW[t] = pip \/ TILE_HIGH[t] = pip

OtherFace(t, pip) == IF TILE_LOW[t] = pip THEN TILE_HIGH[t] ELSE TILE_LOW[t]

\* The boards tile t can make of the board (l, r), one for each end it fits.
BoardsAfter(t, l, r) ==
    IF l = 7 THEN {<<TILE_LOW[t], TILE_HIGH[t]>>}
    ELSE {<<OtherFace(t, l), r>> : x \in {1 : y \in {l} \cap {TILE_LOW[t], TILE_HIGH[t]}}}
           \cup {<<l, OtherFace(t, r)>> : x \in {1 : y \in {r} \cap {TILE_LOW[t], TILE_HIGH[t]}}}

HasReply(hand, board) == \E t \in hand : Fits(t, board[1]) \/ Fits(t, board[2])

\* C17: total_pips_bb(hand, both_hands) is the sum of low + high over the
\* tiles of hand, plus 13 for tile (0,0) exactly when hand holds (0,0) and
\* both_hands holds none of (0,1)..(0,6); (0,0) alone gives 13, (0,0) with
\* (0,1) gives 1.
C17_TotalPips ==
    /\ call.fn = "total_pips_bb"
         => call.ret = GhostPips(call.args.hand, call.args.both_hands)
    /\ total_pips_bb({0}, {0}) = 13
    /\ total_pips_bb({0, 1}, {0, 1}) = 1

\* (0,0) counted 13 in a hand with other tiles, and the same hand counted
\* without it because the other hand holds a tile of the zero suit.
C17_Witness ==
    /\ call.fn = "total_pips_bb"
    /\ 0 \in call.args.hand
    /\ call.args.hand # {0}
    /\ call.args.both_hands = call.args.hand
    /\ call.ret = FaceSum(call.args.hand) + 13
    /\ total_pips_bb(call.args.hand, session.ai_hand \cup session.human_hand)
         = FaceSum(call.args.hand)

\* C13: score_block_bb, with the aggressor detect_aggressor_bb names and the
\* pip counts of the two hands under ghost-13 on their union: when the
\* aggressor's pips are at most the opponent's it returns twice the
\* opponent's pips, positive for an AI aggressor and negative for a human
\* one; otherwise the sum of both counts, negative for an AI aggressor and
\* positive for a human one.
C13_BlockScore ==
    call.fn = "score_block_bb" =>
      LET x          == call.args
          aggressor  == detect_aggressor_bb(x.p1.who, x.p1.l, x.p1.r, x.p1.tile, x.p2.who,
                                            x.p2.l, x.p2.r,
                                            IF x.p1.who = 1 THEN x.ai_hand ELSE x.human_hand,
                                            IF x.p1.who = 1 THEN x.human_hand ELSE x.ai_hand)
          ai_pips    == GhostPips(x.ai_hand, x.ai_hand \cup x.human_hand)
          human_pips == GhostPips(x.human_hand, x.ai_hand \cup x.human_hand)
      IN  /\ aggressor \in {0, 1}
          /\ aggressor = 1 /\ ai_pips <= human_pips => call.ret = 2 * human_pips
          /\ aggressor = 0 /\ human_pips <= ai_pips => call.ret = -(2 * ai_pips)
          /\ aggressor = 1 /\ ai_pips > human_pips => call.ret = -(ai_pips + human_pips)
          /\ aggressor = 0 /\ human_pips > ai_pips => call.ret = ai_pips + human_pips

\* A human aggressor with as many pips as the AI, none of them zero: the
\* AI is charged twice its pips.
C13_Witness ==
    /\ call.fn = "score_block_bb"
    /\ call.ret < 0
    /\ call.ret = -(2 * GhostPips(session.ai_hand, session.ai_hand \cup session.human_hand))
    /\ GhostPips(session.ai_hand, session.ai_hand \cup session.human_hand)
         = GhostPips(session.human_hand, session.ai_hand \cup session.human_hand)

\* The last placer's hand before the last placement, the tiles of it that
\* fit the board P2 left, and the boards the forced tile could make.
HandBefore(x) == x.last_placer_hand \cup {x.p1.tile}

Playable(x) ==
    {t \in HandBefore(x) : x.p2.l = 7 \/ Fits(t, x.p2.l) \/ Fits(t, x.p2.r)}

ForcedBoards(x) ==
    UNION {BoardsAfter(t, x.p2.l, x.p2.r) : t \in Playable(x)}

\* Some hand has a move on the board: the other hand, or the last placer's
\* hand without the forced tile.
ReplyOn(x, board) ==
    HasReply(x.other_hand, board) \/ HasReply(HandBefore(x) \ Playable(x), board)

\* C15: detect_aggressor_bb names P2.who exactly when the last placer, on the
\* board P2 left, had one playable tile and every orientation of that tile
\* leaves neither hand a move; in every other case it names P1.who.
C15_Puppeteer ==
    call.fn = "detect_aggressor_bb" =>
      LET x == call.args
          puppeteered == /\ x.p2.who # -1
                         /\ x.p1.tile # -1
                         /\ Cardinality(Playable(x)) = 1
                         /\ \A board \in ForcedBoards(x) : ~ReplyOn(x, board)
      IN  call.ret = IF puppeteered THEN x.p2.who ELSE x.p1.who

\* The puppeteer blamed: P2 is the other player and is named.
C15_Witness ==
    /\ call.fn = "detect_aggressor_bb"
    /\ call.args.p2.who # -1
    /\ call.args.p2.who # call.args.p1.who
    /\ call.ret = call.args.p2.who

\* The legal-move mask detect_aggressor_bb reconstructs.
LegalMask(x) ==
    IF x.p2.l = 7 THEN HandBefore(x)
    ELSE (SUIT_MASK[x.p2.l] \cup SUIT_MASK[x.p2.r]) \cap HandBefore(x)

\* C14 as stated: P1.who when P2 is absent or P1 played no tile, or when the
\* mask has one bit and the forced tile leaves a reply on both of its
\* orientations; P2.who in every other case.
C14_AsWorded ==
    call.fn = "detect_aggressor_bb" =>
      LET x == call.args
      IN  call.ret = IF \/ x.p2.who = -1
                        \/ x.p1.tile = -1
                        \/ /\ popcount(LegalMask(x)) = 1
                           /\ \A board \in ForcedBoards(x) : ReplyOn(x, board)
                     THEN x.p1.who ELSE x.p2.who

\* C14 as the code has it: P1.who when P2 is absent or P1 played no tile,
\* when the mask has no bit or several, or when the forced tile leaves a
\* reply on at least one of its orientations; P2.who only when the mask has
\* one bit and no orientation leaves a reply.
C14_Aggressor ==
    call.fn = "detect_aggressor_bb" =>
      LET x == call.args
      IN  call.ret = IF \/ x.p2.who = -1
                        \/ x.p1.tile = -1
                        \/ popcount(LegalMask(x)) # 1
                        \/ \E board \in ForcedBoards(x) : ReplyOn(x, board)
                     THEN x.p1.who ELSE x.p2.who

\* One forced tile with two orientations, a reply on one of them only: P1
\* is named although P2 is the other player.
C14_Witness ==
    /\ call.fn = "detect_aggressor_bb"
    /\ call.args.p2.who \notin {-1, call.args.p1.who}
    /\ call.args.p1.tile # -1
    /\ popcount(LegalMask(call.args)) = 1
    /\ \E b1, b2 \in ForcedBoards(call.args) :
          ReplyOn(call.args, b1) /\ ~ReplyOn(call.args, b2)
    /\ call.ret = call.args.p1.who

\* C16: whenever the AI holds exactly one tile and it is playable,
\* choose_move returns that tile on an end it fits, with depth >= 1 and
\* best_score the human's pip count under ghost-13, which is positive.
C16_ImmediateDomino ==
    \A k \in 1 .. Len(results) :
        LET r == results[k]
            a == r.input
        IN  (ValidCall(a) /\ Cardinality(a.ai_hand) = 1 /\ LegalMoves(a) # {}
               /\ a.human_hand # {}) =>
                /\ r.best_tile_idx \in a.ai_hand
                /\ <<r.best_tile_idx, r.best_end>> \in LegalMoves(a)
                /\ r.depth >= 1
                /\ r.best_score = GhostPips(a.human_hand, a.human_hand)
                /\ r.best_score > 0

\* The AI has gone out on a human left with (0,0) alone: 13 points.
C16_Witness ==
    /\ results # <<>>
    /\ Cardinality(results[1].input.ai_hand) = 1
    /\ results[1].input.human_hand = {0}
    /\ results[1].best_tile_idx \in results[1].input.ai_hand
    /\ results[1].best_score = 13

(***************************************************************************)
(* movegen.rs on its own.  A behaviour takes a hand and two ends and calls *)
(* generate_moves, at ply 0 or 1, and count_moves_bb on them.              *)
(***************************************************************************)
\* (0,0) (0,1) (1,1) (1,2) (2,2) (3,3)
MoveTiles == {0, 1, 7, 8, 13, 18}

\* An empty board, or two ends.
MoveBoards == {<<7, 7>>} \cup ({0, 1, 2} \X {0, 1, 2})

MoveInputs ==
    {[kind |-> "moves", hand |-> hand, left |-> b[1], right |-> b[2]] :
        hand \in SUBSET MoveTiles, b \in MoveBoards}

GenerateMovesOp ==
    /\ session.kind = "moves"
    /\ \E ply \in {0, 1} :
         LET moves == generate_moves(session.hand, session.left, session.right)
         IN  /\ MOVE_BUF' = WriteMoves(MOVE_BUF, ply, moves)
             /\ call' = [fn |-> "generate_moves",
                         args |-> [hand |-> session.hand, left |-> session.left,
                                   right |-> session.right, ply |-> ply],
                         ret |-> Len(moves)]
    /\ UNCHANGED <<G_MATCH_DIFF, NODE_COUNT, TT_DIAG, TT, TT_GENERATION, KILLER, HISTORY_SCORE,
                   stack, root, shell, results, session, ZOBRIST, calls, tt_op, tt_writer>>
    /\ UNCHANGED posVars

CountMovesOp ==
    /\ session.kind = "moves"
    /\ call' = [fn |-> "count_moves_bb",
                args |-> [hand |-> session.hand, left |-> session.left,
                          right |-> session.right],
                ret |-> count_moves_bb(session.hand, session.left, session.right)]
    /\ CallFrame

InitMoves ==
    /\ Statics
    /\ session \in MoveInputs

NextMoves ==
    \/ GenerateMovesOp
    \/ CountMovesOp

SpecMoves == InitMoves /\ [][NextMoves]_vars

\* The tiles of the hand that fit an end.
FitsEnd(hand, pip) == {t \in hand : Fits(t, pip)}

\* C18: generate_moves writes only pairs (tile, end) with the tile in the
\* hand and fitting that end (any tile, on end 0, on an empty board), never
\* the same pair twice; it returns the number of tiles on an empty board,
\* the number of tiles that fit the end when the ends are equal (all on end
\* 0), and otherwise the number that fit the left end plus the number that
\* fit the right end, a tile that fits both being written once for each.
C18_GenerateMoves ==
    call.fn = "generate_moves" =>
      LET x       == call.args
          n       == call.ret
          emitted == MOVE_BUF[x.ply]
      IN  /\ Len(emitted) >= n
          /\ \A i \in 1 .. n :
                /\ emitted[i][1] \in x.hand
                /\ emitted[i][2] \in {0, 1}
                /\ IF x.left = 7 THEN emitted[i][2] = 0
                   ELSE Fits(emitted[i][1], IF emitted[i][2] = 0 THEN x.left ELSE x.right)
          /\ \A i, j \in 1 .. n : i # j => emitted[i] # emitted[j]
          /\ x.left = 7 => n = Cardinality(x.hand)
          /\ (x.left # 7 /\ x.left = x.right) =>
                /\ n = Cardinality(FitsEnd(x.hand, x.left))
                /\ n = popcount(SUIT_MASK[x.left] \cap x.hand)
                /\ \A i \in 1 .. n : emitted[i][2] = 0
          /\ (x.left # 7 /\ x.left # x.right) =>
                /\ n = Cardinality(FitsEnd(x.hand, x.left))
                         + Cardinality(FitsEnd(x.hand, x.right))
                /\ n = popcount(SUIT_MASK[x.left] \cap x.hand)
                         + popcount(SUIT_MASK[x.right] \cap x.hand)
                /\ \A t \in FitsEnd(x.hand, x.left) \cap FitsEnd(x.hand, x.right) :
                      /\ Cardinality({i \in 1 .. n : emitted[i] = <<t, 0>>}) = 1
                      /\ Cardinality({i \in 1 .. n : emitted[i] = <<t, 1>>}) = 1

\* A tile that fits both of two different ends has been written for both.
C18_Witness ==
    /\ call.fn = "generate_moves"
    /\ call.args.left # call.args.right
    /\ call.ret >= 3
    /\ \E t \in call.args.hand :
          \E i, j \in 1 .. call.ret :
             MOVE_BUF[call.args.ply][i] = <<t, 0>> /\ MOVE_BUF[call.args.ply][j] = <<t, 1>>

MaxOrdOps == 3

\* Depths within the table, at both its edges, and outside it.
OrdDepths == {-1, 0, 63, 64}

OrdMoves == {<<5, 0>>, <<10, 1>>, <<10, 0>>}

OrdFrame ==
    /\ UNCHANGED <<G_MATCH_DIFF, NODE_COUNT, TT_DIAG, TT, TT_GENERATION, MOVE_BUF, stack,
                   root, shell, results, session, ZOBRIST, tt_op, tt_writer>>
    /\ UNCHANGED posVars

ClearMoveOrderingOp ==
    /\ session.kind = "ordering"
    /\ calls < MaxOrdOps
    /\ KILLER' = clear_move_ordering_data.killer
    /\ HISTORY_SCORE' = clear_move_ordering_data.history
    /\ call' = [fn |-> "clear_move_ordering_data"]
    /\ calls' = calls + 1
    /\ OrdFrame

RecordKillerOp ==
    /\ session.kind = "ordering"
    /\ calls < MaxOrdOps
    /\ \E depth \in OrdDepths, mv \in OrdMoves :
         /\ KILLER' = record_killer(KILLER, depth, mv[1], mv[2])
         /\ call' = [fn |-> "record_killer",
                     args |-> [depth |-> depth, tile_idx |-> mv[1], end |-> mv[2]]]
    /\ calls' = calls + 1
    /\ UNCHANGED HISTORY_SCORE
    /\ OrdFrame

\* Depths for record_history: none, a small one, the one of test_history_cap,
\* and the first whose square leaves the i32 range.
HistDepths == {0, 7, 100, 46341}

HistMoves == {<<0, 0>>, <<10, 1>>}

RecordHistoryOp ==
    /\ session.kind = "ordering"
    /\ calls < MaxOrdOps
    /\ \E depth \in HistDepths, mv \in HistMoves :
         /\ HISTORY_SCORE' = record_history(HISTORY_SCORE, mv[1], mv[2], depth)
         /\ call' = [fn |-> "record_history",
                     args |-> [depth |-> depth, tile_idx |-> mv[1], end |-> mv[2]]]
    /\ calls' = calls + 1
    /\ UNCHANGED KILLER
    /\ OrdFrame

InitOrd ==
    /\ Statics
    /\ session = [kind |-> "ordering", n |-> 0]

NextOrd ==
    \/ ClearMoveOrderingOp
    \/ RecordKillerOp
    \/ RecordHistoryOp

SpecOrd == InitOrd /\ [][NextOrd]_vars

\* C20: record_killer(d, tile, end) with d in 0..63 changes nothing when
\* (tile, end) is slot 0 of depth d, and otherwise moves slot 0 to slot 1 and
\* puts (tile, end) in slot 0; the slots of the other depths stay, and with
\* d outside 0..63 every slot stays.
C20_RecordKiller ==
    [][call'.fn = "record_killer" /\ calls' = calls + 1 =>
         LET d   == call'.args.depth
             mv  == <<call'.args.tile_idx, call'.args.end>>
             old == KillerAt(KILLER, d)
         IN  /\ d \in 0 .. MAX_DEPTH_SLOTS - 1 =>
                   KillerAt(KILLER', d) = IF old[1] = mv THEN old ELSE <<mv, old[1]>>
             /\ \A other \in 0 .. MAX_DEPTH_SLOTS - 1 :
                   (other # d) => KillerAt(KILLER', other) = KillerAt(KILLER, other)
             /\ d \notin 0 .. MAX_DEPTH_SLOTS - 1 =>
                   \A any \in (DOMAIN KILLER \cup DOMAIN KILLER') \cup (0 .. MAX_DEPTH_SLOTS - 1) :
                       KillerAt(KILLER', any) = KillerAt(KILLER, any)]_vars

\* The same move recorded twice at depth 63, the last depth of the table:
\* slot 1 is still empty.
C20_Witness ==
    /\ call.fn = "record_killer"
    /\ call.args.depth = 63
    /\ calls = 2
    /\ KillerAt(KILLER, 63) = <<(<<call.args.tile_idx, call.args.end>>), KillerEmpty>>
    /\ KillerAt(KILLER, 0) = <<KillerEmpty, KillerEmpty>>

\* The history entries a table holds: all 28 x 3 of them, those never written
\* being 0.
HistoryEntries == {<<t, e>> : t \in 0 .. NUM_TILES - 1, e \in -1 .. 1}

\* C21: from the cleared tables, under any sequence of record_history calls
\* with depth >= 0, every history entry stays within 0..10000, and each call
\* adds depth*depth to the entry of its tile and end, capped at 10000, and
\* leaves every other entry as it was.
C21_HistorySaturates ==
    [][call'.fn = "record_history" /\ calls' = calls + 1 /\ call'.args.depth >= 0 =>
         LET d   == call'.args.depth
             key == <<call'.args.tile_idx, call'.args.end>>
             old == HistoryAt(HISTORY_SCORE, key[1], key[2])
         IN  /\ \A k \in HistoryEntries :
                   /\ HistoryAt(HISTORY_SCORE', k[1], k[2]) >= 0
                   /\ HistoryAt(HISTORY_SCORE', k[1], k[2]) <= 10000
                   /\ k # key =>
                        HistoryAt(HISTORY_SCORE', k[1], k[2]) = HistoryAt(HISTORY_SCORE, k[1], k[2])
             /\ d <= 46340 =>
                   HistoryAt(HISTORY_SCORE', key[1], key[2]) = Min2(10000, old + d * d)
             /\ d > 46340 => HistoryAt(HISTORY_SCORE', key[1], key[2]) = 10000]_vars

\* What does hold of record_history: with 0 <= depth <= 46340 (the depths
\* whose square is an i32) and an entry within 0..10000 before the call, the
\* entry becomes min(10000, entry + depth*depth) and the others stay.
HistoryBelowOverflow ==
    [][call'.fn = "record_history" /\ calls' = calls + 1
         /\ call'.args.depth \in 0 .. 46340
         /\ HistoryAt(HISTORY_SCORE, call'.args.tile_idx, call'.args.end) \in 0 .. 10000 =>
         LET d   == call'.args.depth
             key == <<call'.args.tile_idx, call'.args.end>>
             old == HistoryAt(HISTORY_SCORE, key[1], key[2])
         IN  /\ HistoryAt(HISTORY_SCORE', key[1], key[2]) = Min2(10000, old + d * d)
             /\ \A k \in HistoryEntries :
                   k # key =>
                     HistoryAt(HISTORY_SCORE', k[1], k[2]) = HistoryAt(HISTORY_SCORE, k[1], k[2])]_vars

(***************************************************************************)
(* The deepening loop of choose_move: what an iteration may change.        *)
(***************************************************************************)
\* One call to a behaviour.  The first meets the scaled node cap in its third
\* iteration and in every later one, up to the last; tile 23 is (4,5) and
\* fits both ends of the board 4|5.  The second meets it in iterations 1, 4
\* and 5, with five tiles in the hands, and completes iteration 6.  The
\* third, under the cap the code is built with, never meets it.  The fourth
\* has nineteen tiles, none of the human's fitting the board while the AI
\* plays its first seven: its first line is extended six times.
CapDeals ==
    << Deal({4, 13, 21, 23}, {3, 9, 19}, 4, 5, 0, NODE_LIMIT_SCALED),
       Deal({15, 20, 24}, {17, 21}, 7, 7, 0, NODE_LIMIT_SCALED),
       Deal({15, 20, 24}, {17, 21}, 7, 7, 0, NODE_LIMIT),
       Deal({0, 1, 4, 7, 8, 9, 11, 12, 13, 14, 15, 18, 20, 21}, {22, 23, 24, 25, 26}, 0, 1, 0,
            NODE_LIMIT_SCALED + 4) >>

ChooseMoveCapped ==
    /\ session.kind = "capped"
    /\ root.pc = "idle"
    /\ calls = 0
    /\ ChooseMoveEntry(CapDeals[session.n], "direct")
    /\ UNCHANGED shell

InitCap ==
    /\ Statics
    /\ session \in {[kind |-> "capped", n |-> d] : d \in 1 .. Len(CapDeals)}

NextCap ==
    \/ ChooseMoveCapped
    \/ IterBegin
    \/ AspBegin
    \/ RootMake
    \/ RootReturn
    \/ RootUnmake
    \/ AspEnd
    \/ IterEnd
    \/ ChooseMoveReturn
    \/ MinimaxEnter
    \/ MinimaxMake
    \/ MinimaxReturn
    \/ MinimaxPassReturn
    \/ MinimaxUnmake

SpecCap == InitCap /\ [][NextCap]_vars

\* The step that closes an iteration the node cap has aborted.
AbortedIterEnd == root.pc = "iterend" /\ ~root.iter_complete /\ root'.pc # "iterend"

\* C22: the close of an iteration aborted by the node cap leaves best_score,
\* depth, nodes and analysis as the last committed iteration set them, and
\* changes the best move (tile or end) only when the aborted iteration's
\* best move is the best move held so far, tile and end, or scores above 500.
C22_NodeCapFallback ==
    [][AbortedIterEnd =>
         /\ root'.prev_score = root.prev_score
         /\ root'.last_depth = root.last_depth
         /\ root'.last_nodes = root.last_nodes
         /\ root'.committed_scores = root.committed_scores
         /\ (<<root'.best_tile_idx, root'.best_end>> # <<root.best_tile_idx, root.best_end>>) =>
               \/ (<<root.iter_best_tile_idx, root.iter_best_end>>
                      = <<root.best_tile_idx, root.best_end>>)
               \/ root.iter_best_score > 500]_vars

\* What does hold at the close of an aborted iteration: the four result
\* fields stay, and the best move becomes the aborted iteration's best move
\* when that one has the tile of the best move held so far, whatever its
\* end, or scores above 500, and stays otherwise.
NodeCapAdoptsByTile ==
    [][AbortedIterEnd =>
         /\ root'.prev_score = root.prev_score
         /\ root'.last_depth = root.last_depth
         /\ root'.last_nodes = root.last_nodes
         /\ root'.committed_scores = root.committed_scores
         /\ <<root'.best_tile_idx, root'.best_end>> =
               IF root.iter_best_tile_idx >= 0
                    /\ (root.iter_best_tile_idx = root.best_tile_idx
                          \/ root.iter_best_score > 500)
               THEN <<root.iter_best_tile_idx, root.iter_best_end>>
               ELSE <<root.best_tile_idx, root.best_end>>]_vars

\* C23: a call in which the AI has no legal move at the root returns
\* best_tile_idx -1, best_end -1, depth 0, best_score 0, nodes 0 and an empty
\* analysis, and minimax_bb is never entered while it runs: the call stack
\* stays empty and no probe is counted.
C23_NoMoveResult ==
    /\ \A k \in 1 .. Len(results) :
          LET r == results[k]
          IN  (ValidCall(r.input) /\ LegalMoves(r.input) = {}) =>
                 /\ r.best_tile_idx = -1
                 /\ r.best_end = -1
                 /\ r.depth = 0
                 /\ r.best_score = 0
                 /\ r.nodes = 0
                 /\ r.analysis = <<>>
                 /\ r.tt_probes = 0
    /\ (root.pc # "idle" /\ ValidCall(root.input) /\ LegalMoves(root.input) = {}) =>
          /\ stack = <<>>
          /\ TT_DIAG.probes = 0
          /\ (root.pc # "iter" \/ root.iter_depth > 1) => NODE_COUNT = 0

\* A second call with no legal move has run its iterations up to the number
\* of tiles left and returned.
C23_Witness ==
    /\ Len(results) = 2
    /\ ValidCall(results[2].input)
    /\ LegalMoves(results[2].input) = {}
    /\ results[2].input.ai_hand # {}
    /\ results[2].stop = "solved"
    /\ results[2].input.ai_hand \cup results[2].input.human_hand = {0, 11, 26}

\* C24: the clock is read only at the end of an iteration, so iteration 1
\* runs to its end whatever the budget: a valid call in which the AI has a
\* legal move and the node cap is out of reach returns depth >= 1 and a
\* committed move, one whose score is in the analysis, the analysis holding
\* every tile the AI can play; and a search is stopped nowhere but at the
\* end of an iteration.
C24_FirstIterationRuns ==
    /\ \A k \in 1 .. Len(results) :
          LET r == results[k]
              a == r.input
          IN  (ValidCall(a) /\ LegalMoves(a) # {} /\ a.node_limit = NODE_LIMIT) =>
                 /\ r.depth >= 1
                 /\ r.best_tile_idx >= 0
                 /\ \E j \in 1 .. Len(r.analysis) :
                       r.analysis[j] = <<r.best_tile_idx, r.best_end, r.best_score>>
                 /\ {r.analysis[j][1] : j \in 1 .. Len(r.analysis)}
                       = {mv[1] : mv \in LegalMoves(a)}
    /\ root.stop # "none" => (root.pc = "done" /\ stack = <<>>)

\* The clock has stopped a search right after iteration 1, with several
\* legal moves and more tiles left than one iteration solves.
C24_Witness ==
    /\ results # <<>>
    /\ results[1].stop = "time"
    /\ results[1].depth = 1
    /\ results[1].input.node_limit = NODE_LIMIT
    /\ Cardinality(LegalMoves(results[1].input)) > 1
    /\ Cardinality(results[1].input.ai_hand \cup results[1].input.human_hand) > 3
    /\ results[1].nodes > 0

\* The tiles in the two hands of a call.
TotalTiles(a) == Cardinality(a.ai_hand) + Cardinality(a.human_hand)

\* C25 as stated: the deepening loop ends right after the first complete
\* iteration whose iter_depth is at least the number of tiles in the two
\* hands, or earlier on the clock, so the returned depth is at most that
\* number and at most 50.
C25_DepthBounded ==
    \A k \in 1 .. Len(results) :
        LET r == results[k]
        IN  ValidCall(r.input) => r.depth <= Min2(MAX_ITER_DEPTH, TotalTiles(r.input))

\* C25, amended: the loop ends right after a complete iteration whose
\* iter_depth is at least the number of tiles in the hands and right after
\* iteration 50, and otherwise goes on to the next depth unless the clock
\* ends it; it is past that number only when no iteration from that number
\* on was committed; the returned depth is at most 50, and at most the number
\* of tiles when the node cap is out of reach.
C25_StopsOnceSolved ==
    [][
        /\ (root.pc = "iterend" /\ root'.pc # "iterend" /\ ValidCall(root.input)) =>
              (LET total  == TotalTiles(root.input)
                   solved == root.iter_complete /\ root.iter_depth >= total
               IN  /\ solved => root'.pc = "done"
                   /\ root.iter_depth = MAX_ITER_DEPTH => root'.pc = "done"
                   /\ root'.pc # "done" =>
                         (root'.pc = "iter" /\ root'.iter_depth = root.iter_depth + 1)
                   /\ root.iter_depth > total => root.last_depth < total
                   /\ root'.last_depth <= MAX_ITER_DEPTH
                   /\ root.input.node_limit = NODE_LIMIT => root'.last_depth <= total)
        /\ (results' # results) =>
              (LET r == results'[Len(results')]
               IN  ValidCall(r.input) =>
                     /\ r.depth <= MAX_ITER_DEPTH
                     /\ r.input.node_limit = NODE_LIMIT => r.depth <= TotalTiles(r.input))
    ]_vars

\* A call with five tiles in the hands has returned depth 6: the node cap
\* aborted iterations 4 and 5, and iteration 6 was complete.
C25_Witness ==
    /\ results # <<>>
    /\ TotalTiles(results[1].input) = 5
    /\ results[1].depth = 6
    /\ results[1].stop = "solved"

(***************************************************************************)
(* The move buffer under the recursion.                                    *)
(***************************************************************************)
\* A call of minimax_bb that is in its move loop, and the root in its own.
Iterating(f) == f.pc \in {"loop", "called", "unmake"}

RootIterating == root.pc \in {"asp", "loop", "called", "pvs1", "unmake", "aspend"}

\* The move list a node iterates over: the first count entries of the
\* region of its ply.
MoveList(buf, ply, count) == SubSeq(buf[ply], 1, count)

\* C26: no step changes the move list of a node that is in its move loop,
\* the root at ply 0 or a call of minimax_bb at its own ply, whatever the
\* calls beneath it write (the children of a placement at the next ply,
\* the callee of a pass at the same ply); the nodes that are in their move
\* loops are at strictly increasing plies above the root's; and the ply is
\* the number of tiles placed since the root, so always below MAX_PLY.
C26_NoAliasing ==
    [][
        /\ G_PLY \in 0 .. MAX_PLY - 1
        /\ G_PLY' \in 0 .. MAX_PLY - 1
        /\ (InRun /\ ValidCall(root.input)) =>
              G_PLY = TotalTiles(root.input)
                        - (Cardinality(G_AI_HAND) + Cardinality(G_HUMAN_HAND))
        /\ RootIterating =>
              MoveList(MOVE_BUF', 0, root.num_moves) = MoveList(MOVE_BUF, 0, root.num_moves)
        /\ \A k \in 1 .. Len(stack) :
              Iterating(stack[k]) =>
                 /\ stack[k].saved.ply \in 1 .. MAX_PLY - 1
                 /\ MoveList(MOVE_BUF', stack[k].saved.ply, stack[k].num_moves)
                       = MoveList(MOVE_BUF, stack[k].saved.ply, stack[k].num_moves)
                 /\ \A j \in 1 .. k - 1 :
                       Iterating(stack[j]) => stack[j].saved.ply < stack[k].saved.ply
    ]_vars

\* Beneath a call in its move loop a pass has been made, and the callee of
\* the pass, at the ply of the passer, is in its own move loop with the
\* caller's list still in the buffer one ply below.
C26_Witness ==
    /\ Len(stack) >= 3
    /\ Iterating(stack[Len(stack) - 2])
    /\ stack[Len(stack) - 1].pc = "passwait"
    /\ Iterating(Top)
    /\ Top.saved.ply = stack[Len(stack) - 2].saved.ply + 1
    /\ stack[Len(stack) - 2].num_moves > 1
    /\ Top.num_moves > 1


(***************************************************************************)
(* The evaluator under a swap of the two hands.                            *)
(***************************************************************************)
EvalTiles == {0, 1, 8, 13}

EvalEnds == {<<7, 7>>, <<0, 0>>, <<0, 1>>, <<1, 2>>}

EvalMatchDiffs == {-50, -49, 0, 49, 50}

\* An opening and a midgame pair of hands; the subsets of EvalTiles are
\* endgame hands.
EvalBigHands == {<<0 .. 9, 10 .. 19>>, <<0 .. 4, 14 .. 18>>}

\* Two hands never hold the same tile.
EvalHands ==
    UNION {{<<a, h>> : h \in SUBSET (EvalTiles \ a)} : a \in SUBSET EvalTiles} \cup EvalBigHands

EvalInputs ==
    {[kind |-> "eval", ai_hand |-> hs[1], human_hand |-> hs[2], left |-> e[1], right |-> e[2],
      match_diff |-> d] :
        hs \in EvalHands, e \in EvalEnds, d \in EvalMatchDiffs}

\* evaluate_bb on the position as given, or with the two hands exchanged and
\* match_diff negated.
EvaluateOp ==
    /\ session.kind = "eval"
    /\ session.ai_hand \cap session.human_hand = {}
    /\ \E swapped \in BOOLEAN :
         LET x  == session
             a  == IF swapped THEN x.human_hand ELSE x.ai_hand
             h  == IF swapped THEN x.ai_hand ELSE x.human_hand
             md == IF swapped THEN -x.match_diff ELSE x.match_diff
         IN  call' = [fn |-> "evaluate_bb",
                      args |-> [ai_hand |-> a, human_hand |-> h, left |-> x.left,
                                right |-> x.right, match_diff |-> md],
                      ret |-> evaluate_bb(a, h, x.left, x.right, md)]
    /\ CallFrame

InitEval ==
    /\ Statics
    /\ session \in EvalInputs

NextEval == EvaluateOp

SpecEval == InitEval /\ [][NextEval]_vars

\* The value of the same position seen from the other side: hands exchanged,
\* match_diff negated.
Mirrored(c) ==
    evaluate_bb(c.args.human_hand, c.args.ai_hand, c.args.left, c.args.right, -c.args.match_diff)

\* The lock-in bonuses evaluate_bb adds when `hand`, in the human's place,
\* holds no tile of an end.
LockinBonus(hand, left, right) ==
    IF left = 7 THEN 0
    ELSE IF left = right
    THEN (IF SUIT_MASK[left] \cap hand = {} THEN W_LOCKIN * 2 + W_LOCKIN_BOTH ELSE 0)
    ELSE (IF SUIT_MASK[left] \cap hand = {} THEN W_LOCKIN ELSE 0)
           + (IF SUIT_MASK[right] \cap hand = {} THEN W_LOCKIN ELSE 0)
           + (IF SUIT_MASK[left] \cap hand = {} /\ SUIT_MASK[right] \cap hand = {}
              THEN W_LOCKIN_BOTH ELSE 0)

LookupInputs == {[kind |-> "lookup", tile |-> i, v |-> v] : i \in TileIdx, v \in 0 .. 7}

\* The two table reads of a placement: entry tile * 8 + v of each table.
NewEndOp ==
    /\ session.kind = "lookup"
    /\ call' = [fn |-> "new_end",
                args |-> [tile |-> session.tile, v |-> session.v],
                left |-> NEW_END_LEFT[session.tile * 8 + session.v],
                right |-> NEW_END_RIGHT[session.tile * 8 + session.v]]
    /\ CallFrame

InitLookup ==
    /\ Statics
    /\ session \in LookupInputs

NextLookup == NewEndOp

SpecLookup == InitLookup /\ [][NextLookup]_vars

\* C28: for a tile i and an end value v in 0..6 the two tables hold -1
\* exactly when tile i is not in SUIT_MASK[v], and otherwise both hold the
\* tile's other pip value (low when high = v, else high); for v = 7 the left
\* table holds low and the right table holds high.
C28_NewEndTables ==
    call.fn = "new_end" =>
        LET i == call.args.tile
            v == call.args.v
        IN  IF v = 7
            THEN call.left = TILE_LOW[i] /\ call.right = TILE_HIGH[i]
            ELSE /\ (call.left = -1) <=> (i \notin SUIT_MASK[v])
                 /\ (call.right = -1) <=> (i \notin SUIT_MASK[v])
                 /\ i \in SUIT_MASK[v] =>
                      /\ call.left = (IF TILE_HIGH[i] = v THEN TILE_LOW[i] ELSE TILE_HIGH[i])
                      /\ call.right = call.left

\* Tile [0-6] on an end of 6 turns the end into 0.
C28_Witness ==
    /\ call.fn = "new_end"
    /\ call.args = [tile |-> tile_id_to_index(0, 6), v |-> 6]
    /\ call.left = 0
    /\ call.right = 0


(***************************************************************************)
(* The root position across the root moves.                                *)
(***************************************************************************)
\* The current position as choose_move seeds it from its arguments,
\* lines 436-453.
SeededPos(a) ==
    [ai_hand |-> a.ai_hand, human_hand |-> a.human_hand, left |-> a.left, right |-> a.right,
     hash |-> compute_root_hash(a.ai_hand, a.human_hand, a.left, a.right, TRUE, 0),
     ply |-> 0, cons_pass |-> a.cons_pass, p1 |-> a.p1, p2 |-> a.p2]

\* C29 as stated: after the unmake of a root move every field of the current
\* position (ai_hand, human_hand, left, right, hash, ply, cons_pass, P1, P2)
\* has the value choose_move seeded it with, whatever the arguments.
C29_RootRestored ==
    [][root.pc = "unmake" => Pos' = SeededPos(root.input)]_vars

\* What the unmake does restore: every field but cons_pass, which it sets
\* to 0.
RootRestoredButConsPass ==
    [][root.pc = "unmake" => Pos' = [SeededPos(root.input) EXCEPT !.cons_pass = 0]]_vars


(***************************************************************************)
(* The aspiration attempts of one iteration.                               *)
(***************************************************************************)
\* The step that ends an aspiration attempt.
AttemptEnds == root.pc = "aspend" /\ root'.pc # "aspend"

\* C30: within one iteration the root is searched at most 3 times; a
\* complete attempt with best <= alpha_window resets alpha_window to
\* -infinity and is followed by another attempt, one with best >=
\* beta_window resets beta_window to +infinity and is followed by another
\* attempt; every iteration that is committed has its score strictly inside
\* the window of its final attempt.
C30_AspirationRetries ==
    [][
       /\ root'.asp_retry \in 0 .. 2
       /\ (root.pc = "asp" /\ root'.pc # "asp") => root'.cur_alpha = root.alpha_w
       /\ (AttemptEnds /\ root.iter_complete /\ root.iter_best_score <= root.alpha_w) =>
             /\ root'.alpha_w = -100000
             /\ root'.beta_w = root.beta_w
             /\ root.asp_retry < 2 => (root'.pc = "asp" /\ root'.asp_retry = root.asp_retry + 1)
       /\ (AttemptEnds /\ root.iter_complete /\ root.iter_best_score > root.alpha_w
             /\ root.iter_best_score >= root.beta_w) =>
             /\ root'.beta_w = 100000
             /\ root'.alpha_w = root.alpha_w
             /\ root.asp_retry < 2 => (root'.pc = "asp" /\ root'.asp_retry = root.asp_retry + 1)
       /\ (AttemptEnds /\ root'.pc = "iterend" /\ IterCommits(root, FALSE)) =>
             /\ root.alpha_w < root.iter_best_score
             /\ root.iter_best_score < root.beta_w
             /\ root'.alpha_w = root.alpha_w
             /\ root'.beta_w = root.beta_w
      ]_vars

\* An iteration is about to be committed on its second attempt, the first
\* having failed against a window around the previous score.
C30_Witness ==
    /\ root.pc = "iterend"
    /\ root.asp_retry = 1
    /\ IterCommits(root, FALSE)
    /\ (root.alpha_w = -100000) # (root.beta_w = 100000)


(***************************************************************************)
(* The quiescence gate of minimax_bb.                                      *)
(***************************************************************************)
\* The node on top of the stack is entered below the cap with depth <= 0
\* and at least one legal move.
AtGate ==
    /\ Len(stack) > 0
    /\ Top.pc = "enter"
    /\ NODE_COUNT + 1 < root.node_limit
    /\ Top.depth <= 0
    /\ \E t \in (IF Top.is_ai THEN G_AI_HAND ELSE G_HUMAN_HAND) :
          G_LEFT = 7 \/ Fits(t, G_LEFT) \/ Fits(t, G_RIGHT)

\* The three reasons for an extension.
Tactical ==
    LET mine   == IF Top.is_ai THEN G_AI_HAND ELSE G_HUMAN_HAND
        theirs == IF Top.is_ai THEN G_HUMAN_HAND ELSE G_AI_HAND
        total_remaining == Cardinality(G_AI_HAND) + Cardinality(G_HUMAN_HAND)
    IN  \/ Len(generate_moves(mine, G_LEFT, G_RIGHT)) = 1
        \/ G_CONS_PASS > 0
        \/ (total_remaining <= 8 /\ count_moves_bb(theirs, G_LEFT, G_RIGHT) <= 1)

MaxExt == 6 + Max2(12 - (Cardinality(G_AI_HAND) + Cardinality(G_HUMAN_HAND)), 0)

LoopEnds ==
    /\ Len(stack) > 0
    /\ Top.pc = "unmake"
    /\ stack'[Len(stack)].pc = "ret"

\* The flag as the three cases give it.
FlagFor(best, alpha_orig, beta_orig) ==
    IF alpha_orig < best /\ best < beta_orig THEN TT_EXACT
    ELSE IF best >= beta_orig THEN TT_LOWER
    ELSE TT_UPPER

\* C32: an interior node, maximizing or minimizing, stores its best score
\* with the flag EXACT iff alpha_orig < best < beta_orig, LOWER iff best >=
\* beta_orig, UPPER iff best <= alpha_orig, alpha_orig and beta_orig being the
\* window it was entered with; the store is made under the node's own hash,
\* restored, with the move that produced best.
C32_FlagAssignment ==
    [][
       /\ (Len(stack) > 0 /\ Top.pc = "enter") =>
             /\ Top.alpha < Top.beta
             /\ Top.orig_alpha = Top.alpha
             /\ Top.orig_beta = Top.beta
       /\ (Len(stack) > 0 /\ Top.pc = "unmake") =>
             LET f == Top
                 g == stack'[Len(stack)]
                 better == IF f.is_ai THEN f.sc > f.best ELSE f.sc < f.best
             IN  /\ g.orig_alpha = f.orig_alpha
                 /\ g.orig_beta = f.orig_beta
                 /\ g.best = (IF better THEN f.sc ELSE f.best)
                 /\ <<g.best_move_idx, g.best_move_end>> =
                      (IF better THEN <<f.t_idx, f.end>>
                       ELSE <<f.best_move_idx, f.best_move_end>>)
       /\ LoopEnds =>
             LET g == stack'[Len(stack)]
             IN  /\ G_HASH' = g.entry.hash
                 /\ g.ret = g.best
                 /\ ~(g.best <= g.orig_alpha /\ g.best >= g.orig_beta)
                 /\ TT' = tt_store(TT, TT_GENERATION, g.entry.hash, g.depth,
                                   FlagFor(g.best, g.orig_alpha, g.orig_beta), g.best,
                                   g.best_move_idx, g.best_move_end)
       /\ (Len(stack) > 0 /\ Top.pc = "unmake" /\ ~LoopEnds) => TT' = TT
      ]_vars

\* A minimizing node has just stored a best score equal to the alpha it was
\* entered with, as an upper bound.
C32_Witness ==
    /\ Len(stack) > 0
    /\ Top.pc = "ret"
    /\ Top.path \in {"loop", "cutoff"}
    /\ ~Top.is_ai
    /\ Top.ret = Top.orig_alpha
    /\ TtSlot(TT, TtIndex(Top.entry.hash)).hash = Top.entry.hash
    /\ TtSlot(TT, TtIndex(Top.entry.hash)).flag = TT_UPPER


(***************************************************************************)
(* The puppeteer records along a line.                                     *)
(***************************************************************************)
\* Who called the k-th open minimax_bb call: the root loop or the call below
\* it; the side that moved there, the tile it is trying and the position it
\* had before trying it.
CallerOf(k) ==
    IF k = 1
    THEN [who |-> 1, tile |-> root.t_idx,
          p1 |-> root.sv.saved_rp1, p2 |-> root.sv.saved_rp2]
    ELSE [who |-> IF stack[k - 1].is_ai THEN 1 ELSE 0, tile |-> stack[k - 1].t_idx,
          p1 |-> stack[k - 1].saved.p1, p2 |-> stack[k - 1].saved.p2]

\* C33: at every minimax node P1.who is the side that made the most recent
\* placement on the line, (P1.l, P1.r) are the board ends, P1.tile is the
\* tile placed, and P2 holds the who, l and r P1 held before that placement;
\* a pass changes neither record.
C33_PuppeteerTracksLine ==
    /\ \A k \in 1 .. Len(stack) :
         LET f == stack[k]
             c == CallerOf(k)
         IN  /\ f.entry.p1.l = f.entry.left
             /\ f.entry.p1.r = f.entry.right
             /\ f.entry.p1.who = (IF f.is_ai THEN 1 ELSE 0) <=> (f.via = "pass")
             /\ f.via = "place" =>
                  /\ f.entry.p1 = [who |-> c.who, l |-> f.entry.left, r |-> f.entry.right,
                                   tile |-> c.tile]
                  /\ f.entry.p2 = [who |-> c.p1.who, l |-> c.p1.l, r |-> c.p1.r]
                  /\ c.who = (IF f.is_ai THEN 0 ELSE 1)
             /\ f.via = "pass" =>
                  /\ k > 1
                  /\ stack[k - 1].via = "place"
                  /\ f.entry.p1 = stack[k - 1].entry.p1
                  /\ f.entry.p2 = stack[k - 1].entry.p2
    /\ (Len(stack) > 0 /\ Top.pc \in {"enter", "loop", "ret"}) =>
         /\ G_P1 = Top.entry.p1
         /\ G_P2 = Top.entry.p2
         /\ G_LEFT = Top.entry.left
         /\ G_RIGHT = Top.entry.right

\* The human is to move again after placing a tile and seeing the AI pass.
C33_Witness ==
    /\ Len(stack) >= 3
    /\ Top.pc = "enter"
    /\ Top.via = "pass"
    /\ G_P1.who = 0
    /\ G_P2.who = 1
    /\ G_P1.tile \in root.input.human_hand


(***************************************************************************)
(* Termination.  The engine is one thread: a step that can be taken is     *)
(* taken.                                                                  *)
(***************************************************************************)
\* Weak fairness of the steps that end something: a nested call, a root
\* move, an attempt, an iteration, the root call.
ReturnsFair ==
    /\ WF_vars(MinimaxReturn)
    /\ WF_vars(MinimaxPassReturn)
    /\ WF_vars(MinimaxUnmake)
    /\ WF_vars(RootReturn)
    /\ WF_vars(RootUnmake)
    /\ WF_vars(AspEnd)
    /\ WF_vars(IterEnd)
    /\ WF_vars(ChooseMoveReturn)

\* Weak fairness of Next itself.  While a call is running some step is
\* enabled and every step changes the state, so WF_vars(Next) is:
\* infinitely often no call is running, or infinitely often a step is taken.
StepsFair == []<>(~InRun) \/ []<><<TRUE>>_vars

SpecFair == Spec /\ ReturnsFair /\ StepsFair

\* C34 as stated: every choose_move call returns.
C34_EveryCallReturns ==
    (root.pc # "idle") ~> (root.pc = "idle")

\* Every call returns or panics.
CallsReturnOrTrap ==
    (root.pc # "idle") ~> (root.pc \in {"idle", "trapped"})

\* The bounds of C34: a line holds at most as many placements as there are
\* tiles at the root and never two passes in a row, and the root is within
\* iteration 50 and its third aspiration attempt.
SearchBounded ==
    InRun =>
       /\ Cardinality({k \in 1 .. Len(stack) : stack[k].via = "place"})
            <= Cardinality(root.input.ai_hand) + Cardinality(root.input.human_hand)
       /\ \A k \in 1 .. Len(stack) :
            stack[k].via = "pass" => (k > 1 /\ stack[k - 1].via = "place")
       /\ root.iter_depth <= MAX_ITER_DEPTH
       /\ root.asp_retry < ASP_RETRIES


(***************************************************************************)
(* Passes.                                                                 *)
(***************************************************************************)
\* C35: within a choose_move run the pass counter never exceeds 1: a node
\* entered on a pass has at least one legal move, and no node returns through
\* the double-pass branch of minimax_bb.
C35_NoDoublePass ==
    InRun =>
       /\ G_CONS_PASS <= 1
       /\ \A k \in 1 .. Len(stack) : stack[k].path # "block2"
       /\ (Len(stack) > 0 /\ Top.pc = "enter" /\ Top.via = "pass") =>
            /\ G_CONS_PASS = 1
            /\ \E t \in (IF Top.is_ai THEN G_AI_HAND ELSE G_HUMAN_HAND) :
                  Fits(t, G_LEFT) \/ Fits(t, G_RIGHT)

\* The AI is to move on a pass of the human, with a tile of its own to place.
C35_Witness ==
    /\ Len(stack) >= 2
    /\ Top.pc = "loop"
    /\ Top.via = "pass"
    /\ Top.is_ai
    /\ Top.num_moves >= 1
    /\ G_CONS_PASS = 1
    /\ stack[Len(stack) - 1].pc = "passwait"


(***************************************************************************)
(* The value of a position, and calls that share the table.                *)
(***************************************************************************)
\* The value of a node under plain minimax: the AI takes the greatest and
\* the human the least of the values of its moves, a side without a move
\* passes, and a line ends in score_domino_bb or score_block_bb with the
\* records that line's own makes have left.  No table, no window, no depth.
RECURSIVE GameValue(_, _)
GameValue(p, is_ai) ==
    LET moves == generate_moves(IF is_ai THEN p.ai_hand ELSE p.human_hand, p.left, p.right)
        Made(k) == minimax_make(p, p, is_ai, moves[k][1], moves[k][2])
        vals == {IF TerminalKind(Made(k), is_ai) = "call" THEN GameValue(Made(k), ~is_ai)
                 ELSE TerminalScore(Made(k), is_ai) : k \in 1 .. Len(moves)}
    IN  IF Len(moves) = 0
        THEN IF p.cons_pass + 1 >= 2
             THEN score_block_bb(p.ai_hand, p.human_hand, p.p1.who, p.p1.l, p.p1.r, p.p1.tile,
                                 p.p2.who, p.p2.l, p.p2.r)
             ELSE GameValue(minimax_pass(p), ~is_ai)
        ELSE IF is_ai THEN CHOOSE v \in vals : \A w \in vals : w <= v
        ELSE CHOOSE v \in vals : \A w \in vals : v <= w

\* The value of the root move (t_idx, end) of the call a.
RootMoveValue(a, t_idx, end) ==
    LET p == SeededPos(a)
        m == root_make(p, p.ai_hand, p.hash, t_idx, end)
    IN  IF TerminalKind(m, TRUE) = "call" THEN GameValue(m, FALSE) ELSE TerminalScore(m, TRUE)

\* Tiles 10, 13 and 21 are (1,4), (2,2) and (3,6); tiles 1, 3 and 7 are
\* (0,1), (0,3) and (1,1).
EndgameDeal == Deal({10, 13}, {21}, 1, 5, 0, NODE_LIMIT)

\* Two calls to a behaviour, on one table.  The first is on the endgame
\* 1|5 with the AI to move: as a direct call without records, as the move
\* after the AI has placed (1,1) and the human has passed, and as the move
\* after the human has placed (0,1).  The second is on a position two
\* placements before that endgame: the AI places (0,3) on 3|5, the human
\* (0,1).  The last series is a game going on: the AI places (1,4) on the
\* right of 0|1 as the first call says, the human (0,5) on the left, and
\* the second call is on what is left; tiles 5, 15, 22 and 24 are (0,5),
\* (2,4), (4,4) and (4,6).
SeriesDeals ==
    << << EndgameDeal, Deal({3, 10, 13}, {1, 21}, 3, 5, 0, NODE_LIMIT) >>,
       << [EndgameDeal EXCEPT !.p1 = [who |-> 1, l |-> 1, r |-> 5, tile |-> 7],
                              !.p2 = [who |-> 0, l |-> 1, r |-> 5]],
          Deal({3, 10, 13}, {1, 21}, 3, 5, 0, NODE_LIMIT) >>,
       << [EndgameDeal EXCEPT !.p1 = [who |-> 0, l |-> 1, r |-> 5, tile |-> 1],
                              !.p2 = [who |-> 1, l |-> 0, r |-> 5]],
          Deal({3, 10, 13}, {1, 21}, 3, 5, 0, NODE_LIMIT) >>,
       << Deal({10, 15, 22, 24}, {0, 5}, 0, 1, 0, NODE_LIMIT),
          [Deal({15, 22, 24}, {0}, 5, 4, 0, NODE_LIMIT)
             EXCEPT !.p1 = [who |-> 0, l |-> 5, r |-> 4, tile |-> 5],
                    !.p2 = [who |-> 1, l |-> 0, r |-> 4]] >> >>

ChooseMoveSeries ==
    /\ session.kind = "series"
    /\ root.pc = "idle"
    /\ calls < Len(SeriesDeals[session.n])
    /\ ChooseMoveEntry(SeriesDeals[session.n][calls + 1], "direct")
    /\ UNCHANGED shell

InitSeries ==
    /\ Statics
    /\ session \in {[kind |-> "series", n |-> d] : d \in 1 .. Len(SeriesDeals)}

NextSeries ==
    \/ ChooseMoveSeries
    \/ IterBegin
    \/ AspBegin
    \/ RootMake
    \/ RootReturn
    \/ RootUnmake
    \/ AspEnd
    \/ IterEnd
    \/ ChooseMoveReturn
    \/ MinimaxEnter
    \/ MinimaxMake
    \/ MinimaxReturn
    \/ MinimaxPassReturn
    \/ MinimaxUnmake

SpecSeries == InitSeries /\ [][NextSeries]_vars

\* A returned result of a full solve: the last committed iteration was as
\* deep as there are tiles, and the loop stopped on it under the node cap.
FullySolved(r) ==
    /\ ValidCall(r.input)
    /\ r.best_tile_idx >= 0
    /\ r.stop = "solved"
    /\ r.depth >= TotalTiles(r.input)

\* C36: when the last committed iteration has iter_depth >= the number of
\* tiles and the node cap was not hit, best_score is the value of the root
\* position under plain minimax, and the returned move has that value.
C36_FullSolveExact ==
    \A i \in 1 .. Len(results) :
       FullySolved(results[i]) =>
          /\ results[i].best_score = GameValue(SeededPos(results[i].input), TRUE)
          /\ RootMoveValue(results[i].input, results[i].best_tile_idx, results[i].best_end)
               = results[i].best_score

\* What C36 says, of the first call made on a table: the calls before it
\* have left nothing there.
FirstCallExact ==
    (Len(results) >= 1 /\ FullySolved(results[1])) =>
       /\ results[1].best_score = GameValue(SeededPos(results[1].input), TRUE)
       /\ RootMoveValue(results[1].input, results[1].best_tile_idx, results[1].best_end)
            = results[1].best_score

\* The fields of a node the hash is made of.
KeyOf(p, is_ai) == <<p.ai_hand, p.human_hand, p.left, p.right, is_ai, p.cons_pass > 0>>

\* The node with the records its key determines: the last placer is the
\* other side, or the side to move after a pass, and it left the ends as
\* they are.
KeyOnly(p, is_ai) ==
    [p EXCEPT !.p1 = [who |-> IF is_ai = (p.cons_pass > 0) THEN 1 ELSE 0,
                      l |-> p.left, r |-> p.right, tile |-> -1],
              !.p2 = NoP2]

\* C37: two search nodes with the same hands, ends, side to move and pass
\* flag have the same value: a node of minimax_bb has the value of the root
\* of an earlier call with its key, whose score the table may hold, and the
\* value its key alone gives it.
C37_SameKeySameValue ==
    \A k \in 1 .. Len(stack) :
       LET f == stack[k]
       IN  /\ GameValue(f.entry, f.is_ai) = GameValue(KeyOnly(f.entry, f.is_ai), f.is_ai)
           /\ \A i \in 1 .. Len(results) :
                 KeyOf(f.entry, f.is_ai) = KeyOf(SeededPos(results[i].input), TRUE) =>
                    GameValue(f.entry, f.is_ai) = GameValue(SeededPos(results[i].input), TRUE)

\* What holds of the nodes of minimax_bb among themselves: the value of
\* each is the value its key alone gives it.
InteriorValueFromKey ==
    \A k \in 1 .. Len(stack) :
       GameValue(stack[k].entry, stack[k].is_ai)
         = GameValue(KeyOnly(stack[k].entry, stack[k].is_ai), stack[k].is_ai)


(***************************************************************************)
(* The returned move and the returned analysis.                            *)
(***************************************************************************)
\* The analysis has the entry (best_tile_idx, best_end, best_score) and no
\* entry above best_score.
Coherent(r) ==
    /\ \E k \in 1 .. Len(r.analysis) :
          r.analysis[k] = <<r.best_tile_idx, r.best_end, r.best_score>>
    /\ \A k \in 1 .. Len(r.analysis) : r.analysis[k][3] <= r.best_score

\* C38: whenever choose_move returns best_tile_idx >= 0, the returned
\* analysis has an entry (best_tile_idx, best_end, s) with s = best_score,
\* and no analysis entry has a score greater than best_score.
C38_ResultCoherent ==
    \A i \in 1 .. Len(results) : results[i].best_tile_idx >= 0 => Coherent(results[i])


(***************************************************************************)
(* The table under the node cap.                                           *)
(***************************************************************************)
\* C39: once NODE_COUNT has reached the cap in an iteration, the calls of
\* minimax_bb that are still open return without storing: no step taken
\* with a call open and the counter at the cap changes the table.
C39_NoStoreUnderCap ==
    [][(Len(stack) > 0 /\ NODE_COUNT >= root.node_limit) => TT' = TT]_vars

====
